---- MODULE Spec2Model ----
(***************************************************************************)
(* A model of the ugcworld control plane: the build pipeline               *)
(* (ugc_backend/job_worker.py, database.py, server_python/spell_storage.py)*)
(* the game-server supervisor (server_python/app.py) and the realtime hub  *)
(* (ugc_backend/app.py, ugc_backend/app_socketio.py, server_python/app.py).*)
(* Each component has its own specification over the shared variables:     *)
(* SpecBuild, SpecSup, SpecHub (asyncio hub), SpecSio (Socket.IO hubs),    *)
(* SpecRooms (room membership of both kinds of hub), SpecWorker (the       *)
(* lifecycle of BuildJobWorker: start, stop and the threads they leave),   *)
(* SpecSession (the sessions of server_python/app.py), SpecPublish (the    *)
(* publish requests of the three servers), SpecOps (the world_ops table),  *)
(* SpecDelete (DELETE /world against POST /join), SpecStore (the revision  *)
(* files on disk), SpecPorts (the port choice with the range in use),      *)
(* SpecLaunch (the launch of a game server with its output reader thread), *)
(* SpecSpells (spell requests and casts in the asyncio hub and in          *)
(* app_socketio), SpecJoined (the same, started with a member in a world)  *)
(* and SpecCount (room membership beside DELETE /world).                   *)
(***************************************************************************)
EXTENDS Integers, Sequences, FiniteSets, TLC

\* ------------------------------------------------------------------ bounds
\* Number of build requests accepted in one run of the model.
MaxJobs == 2
\* Number of spell.publish requests handled in one run of the model.
MaxPublish == 1
\* Number of supervisor requests (POST /join, DELETE) accepted in one run.
MaxCalls == 2
\* Number of game-server processes spawned in one run.
MaxProcs == 2
\* Number of client messages (for Socket.IO: events, disconnects included) the
\* realtime hub handles in one run.
MaxHubMsgs == 3
\* Number of Socket.IO event handlers that run at the same time.
MaxHandlers == 2
\* Number of BuildJobWorker.start() and stop() calls made in one run.
MaxLife == 3
\* Number of sessions created in one run.
MaxSessions == 2
\* Number of ops appended to the op log in one run of the op-log model.
MaxOps == 4
\* The latest time the clock reaches, in periods of SESSION_EXPIRY_SECONDS.
MaxPeriods == 2

VARIABLES
    spells,       \* spells table: spell_id -> row
    revisions,    \* revisions table, rows in insertion order
    jobs,         \* jobs table, job_id = index
    job_queue,    \* BuildJobWorker._job_queue
    rev_dirs,     \* revision directories on disk: {<<spell_id, revision_id>>}
    rev_files,    \* files on disk: <<spell_id, revision_id, path>> -> bytes
    worker,       \* the worker thread: its position in _run_loop and its locals
    events,       \* history: the calls of progress_callback, in order
    requests,     \* history: the build requests accepted, request i made job i
    raised,       \* history: the jobs in which a stage raised an exception
    publishes,    \* number of spell.publish requests handled so far
    running_servers, \* running_servers: world_id -> server_info, NoHandle when absent
    procs,        \* the game-server processes spawned so far, pid = index
    sup_threads,  \* the request threads of the control plane and their locals
    returned,     \* history: the server_info dicts returned to callers of /join
    calls,        \* number of supervisor requests accepted so far
    conn_state,   \* each connection: "new", "open", "closed" by the peer, "gone"
    connected_clients, \* connected_clients
    client_worlds, \* client_worlds: connection -> world_id, NULL when absent
    player_count, \* worlds table: world_id -> player_count
    world_ops,    \* world_ops table: a set of rows
    next_op_id,   \* the AUTOINCREMENT counter of world_ops.op_id
    recv,         \* the messages each connection has been sent, in order
    tasks,        \* asyncio: the send tasks of the broadcasts, oldest first
    busy,         \* asyncio: the point at which each connection's handler waits
    appended,     \* history: per world, the ops appended since the last clear
    append_order, \* history: the center of every op ever appended, in order
    joins,        \* history: the joins handled, with the log read and the reply
    hub_msgs,     \* number of client messages handled so far
    server,       \* which hub runs: "app", "sio" (app_socketio.py), "cp" (server_python)
    rooms,        \* Socket.IO rooms: {<<sid, world_id>>}
    handlers,     \* Socket.IO: the event handler threads and their locals
    running,      \* BuildJobWorker._running
    thread,       \* BuildJobWorker._thread: index into run_threads, 0 for None
    run_threads,  \* every thread start() has spawned: its position in _run_loop
    started,      \* history: the jobs _process_job has begun, in order
    stopper,      \* the caller of stop(): its position in stop()
    lifecalls,    \* number of start() and stop() calls made so far
    active_sessions, \* active_sessions: session_token -> session, NoSession when absent
    now,          \* datetime.now(timezone.utc), in seconds
    issued,       \* number of session tokens issued so far
    validated,    \* history: the last call of validate_session, with its result
    evicted,      \* history: the tokens whose session a validation found expired
    world_rows,   \* worlds table: the world_ids that have a row
    disk,         \* data/spells on disk: <<spell_id, revision_id, path>> -> node
    written,      \* history: key -> the last write_revision_file that returned
    store_last    \* history: the last call of the storage module, with its result

build_vars == <<spells, revisions, jobs, job_queue, rev_dirs, rev_files, worker, events,
               requests, raised, publishes>>

sup_vars == <<running_servers, procs, sup_threads, returned, calls>>

hub_vars == <<conn_state, connected_clients, client_worlds, player_count, world_ops,
             next_op_id, recv, tasks, busy, appended, append_order, joins, hub_msgs,
             server, rooms, handlers>>

sio_vars == <<server, rooms, handlers>>

life_vars == <<running, thread, run_threads, started, stopper, lifecalls>>

cp_vars == <<active_sessions, now, issued, validated, evicted, world_rows>>

store_vars == <<disk, written, store_last>>

vars == <<build_vars, sup_vars, hub_vars, life_vars, cp_vars, store_vars>>

\* The worlds that exist in the worlds table.
Worlds == {"w1", "w2"}

\* ------------------------------------------------------------ value domains
SpellIds == {"fireball", "shield"}
Channels == {"draft", "beta", "stable"}

\* Python None / SQL NULL for text columns.
NULL == "NULL"
\* SQL NULL for a revision id column; revision ids are records [ver, uid].
NoRev == [ver |-> 0, uid |-> 0]

\* A script text is the sequence of the functions it declares ("func <name>").
ScriptWithOnCast == <<"get_manifest", "on_cast">>
ScriptWithoutOnCast == <<"get_manifest", "on_tick">>
EmptyScript == <<>>

\* The value of the request's "code" field: absent/null, or a string.
PyNone == [none |-> TRUE, text |-> <<>>]

PyStr(t) == [none |-> FALSE, text |-> t]

CodeInputs == {PyNone, PyStr(ScriptWithOnCast), PyStr(ScriptWithoutOnCast), PyStr(EmptyScript)}

Max(S) == CHOOSE x \in S : \A y \in S : y <= x

Last(s) == s[Len(s)]

\* ============================================================= build pipeline
\* ---------------------------------------------------------------- database.py
create_spell(sp, s) ==
    [sp EXCEPT ![s] = [exists |-> TRUE, draft |-> NoRev, beta |-> NoRev, stable |-> NoRev]]

spell_exists(sp, s) == sp[s].exists

\* UPDATE spells SET active_<channel>_rev = ? WHERE spell_id = ?
update_spell_active_revision(sp, s, channel, rev) ==
    IF channel \notin Channels THEN sp
    ELSE IF ~sp[s].exists THEN sp
    ELSE [sp EXCEPT ![s][channel] = rev]

\* Mutant: the "+ 1" forgotten.
get_next_version_no_increment(revs, s) ==
    LET vs == {revs[i].version : i \in {k \in DOMAIN revs : revs[k].spell_id = s}}
    IN IF vs = {} THEN 0 ELSE Max(vs)

\* SELECT MAX(version) FROM revisions WHERE spell_id = ?; max_ver + 1
get_next_version(revs, s) ==
    LET vs == {revs[i].version : i \in {k \in DOMAIN revs : revs[k].spell_id = s}}
        max_ver == IF vs = {} \/ Max(vs) = 0 THEN 0 ELSE Max(vs)
    IN max_ver + 1

create_revision(revs, rid, s, manifest, channel, version) ==
    Append(revs, [revision_id |-> rid, spell_id |-> s, channel |-> channel,
                  version |-> version, manifest |-> manifest])

create_job(jb, s) ==
    Append(jb, [spell_id |-> s, status |-> "pending", stage |-> "waiting",
                progress_pct |-> 0, error_message |-> NULL,
                result_revision_id |-> NoRev])

\* Only the fields that are given (not None) are written.
update_job(jb, job_id, fields) ==
    IF job_id \in DOMAIN jb THEN [jb EXCEPT ![job_id] = fields @@ @] ELSE jb

\* ------------------------------------------------------------ spell_storage.py
compute_file_hash(content) == [sha256 |-> content]

create_revision_directory(dirs, s, rid) == dirs \cup {<<s, rid>>}

write_revision_file(files, s, rid, path, content) ==
    (<<s, rid, path>> :> content) @@ files

file_info(path, content) ==
    [path |-> path, hash |-> compute_file_hash(content), size |-> Len(content.bytes)]

\* str.encode("utf-8") and bytes.decode("utf-8")
Utf8Encode(text) == [bytes |-> text]

Utf8Decode(b) == b.bytes

file_exists(files, s, rid, path) == <<s, rid, path>> \in DOMAIN files

read_revision_file(files, s, rid, path) == files[<<s, rid, path>>]

revision_exists(dirs, s, rid) == <<s, rid>> \in dirs

create_manifest(s, rid, version, code_files, asset_files) ==
    [spell_id |-> s, revision_id |-> rid, version |-> version,
     entrypoint |-> "code/spell.gd", code |-> code_files, assets |-> asset_files,
     metadata |-> [name |-> s, tags |-> <<>>, preview_icon |-> "assets/icon.png"]]

write_manifest(files, s, rid, manifest) ==
    (<<s, rid, "manifest.json">> :> manifest) @@ files

manifest_exists(files, s, rid) == <<s, rid, "manifest.json">> \in DOMAIN files

\* -------------------------------------------------------------- job_worker.py
generate_stub_spell == <<"get_manifest", "on_cast", "on_tick", "on_cancel">>

generate_placeholder_icon == [bytes |-> <<"PNG">>]

\* f"func {method}" in code_content
HasFunc(text, method) == \E i \in DOMAIN text : text[i] = method

Event(job_id, stage, pct) == [job_id |-> job_id, stage |-> stage, pct |-> pct]

NoOptions == [has_code |-> FALSE, code |-> PyNone]

WorkerIdle ==
    [pc |-> "loop", job_id |-> 0, options |-> NoOptions, spell_id |-> "",
     revision_id |-> NoRev, version |-> 0, code_files |-> <<>>, asset_files |-> <<>>,
     manifest_version |-> 0, exc |-> NULL, emit |-> <<>>]

\* options.get("code", self._generate_stub_spell(spell_id))
OptionsCode(options) ==
    IF options.has_code THEN options.code ELSE PyStr(generate_stub_spell)

enqueue_job(q, job_id, build_options) ==
    Append(q, [job_id |-> job_id, options |-> build_options])

\* A step of the worker thread that writes a checkpoint to the job record and
\* leaves the matching progress event to be emitted next.
Checkpoint(fields, stage, pct, next_pc, w) ==
    /\ jobs' = update_job(jobs, worker.job_id, fields)
    /\ worker' = [w EXCEPT !.pc = next_pc,
                           !.emit = <<Event(worker.job_id, stage, pct)>>]
    /\ UNCHANGED raised

Raise(message) ==
    /\ worker' = [worker EXCEPT !.pc = "except", !.exc = message]
    /\ raised' = raised \cup {worker.job_id}
    /\ UNCHANGED jobs

AtPc(pc) == worker.pc = pc /\ worker.emit = <<>>

\* The request handlers pass 'code': data.get('code'): the key is always present.
BuildOptions(code) == [has_code |-> TRUE, code |-> code]

\* spell.start_build / POST /api/spells/<id>/build
handle_start_build(s, code) ==
    /\ s # ""
    /\ Len(jobs) < MaxJobs
    /\ spells' = IF spell_exists(spells, s) THEN spells ELSE create_spell(spells, s)
    /\ jobs' = create_job(jobs, s)
    /\ job_queue' = enqueue_job(job_queue, Len(jobs) + 1, BuildOptions(code))
    /\ requests' = Append(requests, [spell_id |-> s, code |-> code])
    /\ UNCHANGED <<revisions, rev_dirs, rev_files, worker, events, raised, publishes>>

\* spell.publish
handle_publish(s, rid, channel) ==
    /\ publishes < MaxPublish
    /\ publishes' = publishes + 1
    /\ spells' = IF s = "" \/ rid = NoRev THEN spells
                 ELSE IF channel \notin Channels THEN spells
                 ELSE IF ~revision_exists(rev_dirs, s, rid) THEN spells
                 ELSE update_spell_active_revision(spells, s, channel, rid)
    /\ UNCHANGED <<revisions, jobs, job_queue, rev_dirs, rev_files, worker, events, requests, raised>>

\* _run_loop: pop the next entry of the queue
run_loop_pop ==
    /\ AtPc("loop")
    /\ job_queue # <<>>
    /\ worker' = [WorkerIdle EXCEPT !.pc = "process",
                                    !.job_id = Head(job_queue).job_id,
                                    !.options = Head(job_queue).options]
    /\ job_queue' = Tail(job_queue)
    /\ UNCHANGED <<spells, revisions, jobs, rev_dirs, rev_files, events, requests, raised, publishes>>

\* _emit_progress: the call of progress_callback
emit_progress ==
    /\ worker.emit # <<>>
    /\ events' = Append(events, Head(worker.emit))
    /\ worker' = [worker EXCEPT !.emit = <<>>]
    /\ UNCHANGED <<spells, revisions, jobs, job_queue, rev_dirs, rev_files, requests, raised, publishes>>

\* _process_job up to the first progress event
process_job_start ==
    /\ AtPc("process")
    /\ IF worker.job_id \notin DOMAIN jobs
       THEN /\ worker' = [worker EXCEPT !.pc = "loop"]
            /\ UNCHANGED <<jobs, raised>>
       ELSE Checkpoint([status |-> "running", stage |-> "prepare", progress_pct |-> 0],
                       "prepare", 0, "prepare_5",
                       [worker EXCEPT !.spell_id = jobs[worker.job_id].spell_id])
    /\ UNCHANGED <<spells, revisions, job_queue, rev_dirs, rev_files, events, requests, publishes>>

stage_prepare_5 ==
    /\ AtPc("prepare_5")
    /\ Checkpoint([stage |-> "prepare", progress_pct |-> 5], "prepare", 5, "prepare_15", worker)
    /\ UNCHANGED <<spells, revisions, job_queue, rev_dirs, rev_files, events, requests, publishes>>

\* The second checkpoint of prepare written as 10.
stage_prepare_15_as_10 ==
    /\ AtPc("prepare_15")
    /\ Checkpoint([progress_pct |-> 10], "prepare", 10, "assemble_20", worker)
    /\ UNCHANGED <<spells, revisions, job_queue, rev_dirs, rev_files, events, requests, publishes>>

stage_prepare_15 ==
    /\ AtPc("prepare_15")
    /\ Checkpoint([progress_pct |-> 15], "prepare", 15, "assemble_20", worker)
    /\ UNCHANGED <<spells, revisions, job_queue, rev_dirs, rev_files, events, requests, publishes>>

stage_assemble_20 ==
    /\ AtPc("assemble_20")
    /\ Checkpoint([stage |-> "assemble_package", progress_pct |-> 20],
                  "assemble_package", 20, "assemble_30", worker)
    /\ UNCHANGED <<spells, revisions, job_queue, rev_dirs, rev_files, events, requests, publishes>>

\* Mutant: the assemble stage reserves the Revision row of the version it took.
stage_assemble_30_reserves_row ==
    /\ AtPc("assemble_30")
    /\ LET version == get_next_version(revisions, worker.spell_id)
           rid == [ver |-> version, uid |-> worker.job_id]
       IN /\ rev_dirs' = create_revision_directory(rev_dirs, worker.spell_id, rid)
          /\ revisions' = create_revision(revisions, rid, worker.spell_id,
                              create_manifest(worker.spell_id, rid, version, <<>>, <<>>),
                              "draft", version)
          /\ Checkpoint([progress_pct |-> 30], "assemble_package", 30, "assemble_45",
                        [worker EXCEPT !.version = version, !.revision_id = rid])
    /\ UNCHANGED <<spells, job_queue, rev_files, events, requests, publishes>>

\* version = get_next_version(spell_id); revision_id = rev_<version>_<uuid>;
\* create_revision_directory. The uuid is fresh for every call: the job's number.
stage_assemble_30 ==
    /\ AtPc("assemble_30")
    /\ LET version == get_next_version(revisions, worker.spell_id)
           rid == [ver |-> version, uid |-> worker.job_id]
       IN /\ rev_dirs' = create_revision_directory(rev_dirs, worker.spell_id, rid)
          /\ Checkpoint([progress_pct |-> 30], "assemble_package", 30, "assemble_45",
                        [worker EXCEPT !.version = version, !.revision_id = rid])
    /\ UNCHANGED <<spells, revisions, job_queue, rev_files, events, requests, publishes>>

\* write_revision_file_text(..., "code/spell.gd", code_content): content.encode()
\* raises AttributeError when code_content is None.
stage_assemble_45 ==
    /\ AtPc("assemble_45")
    /\ LET code_content == OptionsCode(worker.options)
           content == Utf8Encode(code_content.text)
       IN IF code_content.none
          THEN /\ Raise("'NoneType' object has no attribute 'encode'")
               /\ UNCHANGED rev_files
          ELSE /\ rev_files' = write_revision_file(rev_files, worker.spell_id,
                                   worker.revision_id, "code/spell.gd", content)
               /\ Checkpoint([progress_pct |-> 45], "assemble_package", 45, "assemble_55",
                     [worker EXCEPT !.code_files = <<file_info("code/spell.gd", content)>>])
    /\ UNCHANGED <<spells, revisions, job_queue, rev_dirs, events, requests, publishes>>

\* The request handlers pass no icon_data: the placeholder icon is written.
stage_assemble_55 ==
    /\ AtPc("assemble_55")
    /\ LET icon == generate_placeholder_icon
       IN /\ rev_files' = write_revision_file(rev_files, worker.spell_id,
                              worker.revision_id, "assets/icon.png", icon)
          /\ Checkpoint([progress_pct |-> 55], "assemble_package", 55, "validate_60",
                [worker EXCEPT !.asset_files = <<file_info("assets/icon.png", icon)>>])
    /\ UNCHANGED <<spells, revisions, job_queue, rev_dirs, events, requests, publishes>>

\* Mutant: the checkpoint of validate written as 50, below assemble's 55.
stage_validate_60_low ==
    /\ AtPc("validate_60")
    /\ Checkpoint([stage |-> "validate", progress_pct |-> 50], "validate", 50, "validate_75", worker)
    /\ UNCHANGED <<spells, revisions, job_queue, rev_dirs, rev_files, events, requests, publishes>>

stage_validate_60 ==
    /\ AtPc("validate_60")
    /\ Checkpoint([stage |-> "validate", progress_pct |-> 60], "validate", 60, "validate_75", worker)
    /\ UNCHANGED <<spells, revisions, job_queue, rev_dirs, rev_files, events, requests, publishes>>

\* Mutant: on_cast dropped from the required methods.
MissingMethods_none_required(code_content) == {m \in {} : ~HasFunc(code_content, m)}

\* required_methods = ["on_cast"]
MissingMethods(code_content) == {m \in {"on_cast"} : ~HasFunc(code_content, m)}

stage_validate_75 ==
    /\ AtPc("validate_75")
    /\ LET present == file_exists(rev_files, worker.spell_id, worker.revision_id, "code/spell.gd")
           code_bytes == read_revision_file(rev_files, worker.spell_id, worker.revision_id, "code/spell.gd")
       IN IF ~present \/ code_bytes.bytes = <<>>
          THEN Raise("Spell script not found")
          ELSE IF MissingMethods(Utf8Decode(code_bytes)) # {}
          THEN Raise("Missing required methods: on_cast")
          ELSE Checkpoint([progress_pct |-> 75], "validate", 75, "finalize_80", worker)
    /\ UNCHANGED <<spells, revisions, job_queue, rev_dirs, rev_files, events, requests, publishes>>

stage_finalize_80 ==
    /\ AtPc("finalize_80")
    /\ Checkpoint([stage |-> "finalize", progress_pct |-> 80], "finalize", 80, "finalize_90", worker)
    /\ UNCHANGED <<spells, revisions, job_queue, rev_dirs, rev_files, events, requests, publishes>>

\* version = get_next_version(spell_id) again; create_manifest
stage_finalize_90 ==
    /\ AtPc("finalize_90")
    /\ Checkpoint([progress_pct |-> 90], "finalize", 90, "finalize_95",
          [worker EXCEPT !.manifest_version = get_next_version(revisions, worker.spell_id)])
    /\ UNCHANGED <<spells, revisions, job_queue, rev_dirs, rev_files, events, requests, publishes>>

\* write_manifest; create_revision; update_spell_active_revision(spell_id, "draft", ...)
stage_finalize_95 ==
    /\ AtPc("finalize_95")
    /\ LET manifest == create_manifest(worker.spell_id, worker.revision_id,
                           worker.manifest_version, worker.code_files, worker.asset_files)
       IN /\ rev_files' = write_manifest(rev_files, worker.spell_id, worker.revision_id, manifest)
          /\ revisions' = create_revision(revisions, worker.revision_id, worker.spell_id,
                              manifest, "draft", worker.manifest_version)
          /\ spells' = update_spell_active_revision(spells, worker.spell_id, "draft",
                              worker.revision_id)
    /\ Checkpoint([progress_pct |-> 95], "finalize", 95, "complete", worker)
    /\ UNCHANGED <<job_queue, rev_dirs, events, requests, publishes>>

process_job_complete ==
    /\ AtPc("complete")
    /\ Checkpoint([status |-> "completed", stage |-> "done", progress_pct |-> 100,
                   result_revision_id |-> worker.revision_id],
                  "done", 100, "loop", worker)
    /\ UNCHANGED <<spells, revisions, job_queue, rev_dirs, rev_files, events, requests, publishes>>

\* Mutant: the handler logs the failure and does not write it to the job.
run_loop_except_log_only ==
    /\ AtPc("except")
    /\ Checkpoint([updated |-> TRUE], "error", 0, "loop", worker)
    /\ UNCHANGED <<spells, revisions, job_queue, rev_dirs, rev_files, events, requests, publishes>>

\* Mutant: the handler also stores the pct of the error event in the job.
run_loop_except_reset_pct ==
    /\ AtPc("except")
    /\ Checkpoint([status |-> "failed", error_message |-> worker.exc, progress_pct |-> 0],
                  "error", 0, "loop", worker)
    /\ UNCHANGED <<spells, revisions, job_queue, rev_dirs, rev_files, events, requests, publishes>>

\* _run_loop: except Exception as e
run_loop_except ==
    /\ AtPc("except")
    /\ Checkpoint([status |-> "failed", error_message |-> worker.exc], "error", 0, "loop", worker)
    /\ UNCHANGED <<spells, revisions, job_queue, rev_dirs, rev_files, events, requests, publishes>>

\* ============================================================================
\* The lifecycle of BuildJobWorker (job_worker.py): start(), stop() and the
\* _run_loop threads they spawn and leave.  start() and stop() are called one
\* after the other by the owner of the worker; the threads run beside them.
\* Here _process_job is its first checkpoint and its outcome; its stages are
\* the actions of the pipeline above.
\* ============================================================================
RunThreadIds == 1..MaxLife

NewRunThread == [pc |-> "while", job_id |-> 0]

\* The thread is inside the try block of _run_loop or in its except clause.
Processing(t) ==
    /\ t \in DOMAIN run_threads
    /\ run_threads[t].pc \in {"process", "run", "except"}

life_frame == UNCHANGED <<spells, revisions, rev_dirs, rev_files, worker, events, requests,
                          raised, publishes>>

\* start()
worker_start ==
    /\ stopper = "idle"
    /\ lifecalls < MaxLife
    /\ lifecalls' = lifecalls + 1
    /\ IF running
       THEN UNCHANGED <<running, thread, run_threads>>
       ELSE /\ running' = TRUE
            /\ run_threads' = Append(run_threads, NewRunThread)
            /\ thread' = Len(run_threads) + 1
    /\ UNCHANGED <<started, stopper, jobs, job_queue>>
    /\ life_frame

\* stop(): self._running = False; if self._thread: ...
worker_stop ==
    /\ stopper = "idle"
    /\ lifecalls < MaxLife
    /\ lifecalls' = lifecalls + 1
    /\ running' = FALSE
    /\ stopper' = IF thread # 0 THEN "join" ELSE "idle"
    /\ UNCHANGED <<thread, run_threads, started, jobs, job_queue>>
    /\ life_frame

\* stop(): self._thread.join(timeout=5) returns because the thread has ended
worker_stop_joined ==
    /\ stopper = "join"
    /\ run_threads[thread].pc = "dead"
    /\ thread' = 0
    /\ stopper' = "idle"
    /\ UNCHANGED <<running, run_threads, started, lifecalls, jobs, job_queue>>
    /\ life_frame

\* stop(): self._thread.join(timeout=5) returns after five seconds while the
\* thread is still at work on a job
worker_stop_join_timeout ==
    /\ stopper = "join"
    /\ Processing(thread)
    /\ thread' = 0
    /\ stopper' = "idle"
    /\ UNCHANGED <<running, run_threads, started, lifecalls, jobs, job_queue>>
    /\ life_frame

\* _run_loop: while self._running
thread_while(t) ==
    /\ t \in DOMAIN run_threads
    /\ run_threads[t].pc = "while"
    /\ run_threads' = [run_threads EXCEPT ![t].pc = IF running THEN "pop" ELSE "dead"]
    /\ UNCHANGED <<running, thread, started, stopper, lifecalls, jobs, job_queue>>
    /\ life_frame

\* _run_loop: with self._lock: pop(0), or time.sleep(0.5) when the queue is empty
thread_pop(t) ==
    /\ t \in DOMAIN run_threads
    /\ run_threads[t].pc = "pop"
    /\ IF job_queue # <<>>
       THEN /\ run_threads' = [run_threads EXCEPT ![t] = [pc |-> "process",
                                                           job_id |-> Head(job_queue).job_id]]
            /\ job_queue' = Tail(job_queue)
       ELSE /\ run_threads' = [run_threads EXCEPT ![t].pc = "while"]
            /\ UNCHANGED job_queue
    /\ UNCHANGED <<running, thread, started, stopper, lifecalls, jobs>>
    /\ life_frame

\* _process_job: the job becomes running
thread_process_start(t) ==
    /\ t \in DOMAIN run_threads
    /\ run_threads[t].pc = "process"
    /\ jobs' = update_job(jobs, run_threads[t].job_id,
                          [status |-> "running", stage |-> "prepare", progress_pct |-> 0])
    /\ started' = Append(started, run_threads[t].job_id)
    /\ run_threads' = [run_threads EXCEPT ![t].pc = "run"]
    /\ UNCHANGED <<running, thread, stopper, lifecalls, job_queue>>
    /\ life_frame

\* _process_job: the stages pass and the job is completed
thread_process_complete(t) ==
    /\ t \in DOMAIN run_threads
    /\ run_threads[t].pc = "run"
    /\ jobs' = update_job(jobs, run_threads[t].job_id,
                          [status |-> "completed", stage |-> "done", progress_pct |-> 100])
    /\ run_threads' = [run_threads EXCEPT ![t] = NewRunThread]
    /\ UNCHANGED <<running, thread, started, stopper, lifecalls, job_queue>>
    /\ life_frame

\* _process_job: a stage raises
thread_process_raises(t) ==
    /\ t \in DOMAIN run_threads
    /\ run_threads[t].pc = "run"
    /\ run_threads' = [run_threads EXCEPT ![t].pc = "except"]
    /\ UNCHANGED <<running, thread, started, stopper, lifecalls, jobs, job_queue>>
    /\ life_frame

\* Mutant: the handler logs the failure and does not write it to the job.
thread_except_log_only(t) ==
    /\ t \in DOMAIN run_threads
    /\ run_threads[t].pc = "except"
    /\ run_threads' = [run_threads EXCEPT ![t] = NewRunThread]
    /\ UNCHANGED <<running, thread, started, stopper, lifecalls, jobs, job_queue>>
    /\ life_frame

\* _run_loop: except Exception as e
thread_except(t) ==
    /\ t \in DOMAIN run_threads
    /\ run_threads[t].pc = "except"
    /\ jobs' = update_job(jobs, run_threads[t].job_id,
                          [status |-> "failed", error_message |-> "stage failed"])
    /\ run_threads' = [run_threads EXCEPT ![t] = NewRunThread]
    /\ UNCHANGED <<running, thread, started, stopper, lifecalls, job_queue>>
    /\ life_frame

\* One step of thread t of the worker.
ThreadStep(t) ==
    \/ thread_while(t)
    \/ thread_pop(t)
    \/ thread_process_start(t)
    \/ thread_process_complete(t)
    \/ thread_process_raises(t)
    \/ thread_except(t)

\* BuildJobWorker.__init__
InitLife ==
    /\ running = FALSE
    /\ thread = 0
    /\ run_threads = <<>>
    /\ started = <<>>
    /\ stopper = "idle"
    /\ lifecalls = 0

\* Every revision id a client can have learnt (the event at pct 30 names it),
\* and one that was never created.
KnownRevisionIds == {d[2] : d \in rev_dirs} \cup {[ver |-> 1, uid |-> 0]}

InitBuild ==
    /\ spells = [s \in SpellIds |-> [exists |-> FALSE, draft |-> NoRev, beta |-> NoRev, stable |-> NoRev]]
    /\ revisions = <<>>
    /\ jobs = <<>>
    /\ job_queue = <<>>
    /\ rev_dirs = {}
    /\ rev_files = [k \in {} |-> 0]
    /\ worker = WorkerIdle
    /\ events = <<>>
    /\ requests = <<>>
    /\ raised = {}
    /\ publishes = 0
    /\ InitLife

NextBuild ==
    \/ \E s \in SpellIds, code \in CodeInputs : handle_start_build(s, code) /\ UNCHANGED <<sup_vars, hub_vars, life_vars, cp_vars, store_vars>>
    \/ \E s \in SpellIds, rid \in KnownRevisionIds, ch \in Channels : handle_publish(s, rid, ch) /\ UNCHANGED <<sup_vars, hub_vars, life_vars, cp_vars, store_vars>>
    \/ run_loop_pop /\ UNCHANGED <<sup_vars, hub_vars, life_vars, cp_vars, store_vars>>
    \/ emit_progress /\ UNCHANGED <<sup_vars, hub_vars, life_vars, cp_vars, store_vars>>
    \/ process_job_start /\ UNCHANGED <<sup_vars, hub_vars, life_vars, cp_vars, store_vars>>
    \/ stage_prepare_5 /\ UNCHANGED <<sup_vars, hub_vars, life_vars, cp_vars, store_vars>>
    \/ stage_prepare_15 /\ UNCHANGED <<sup_vars, hub_vars, life_vars, cp_vars, store_vars>>
    \/ stage_assemble_20 /\ UNCHANGED <<sup_vars, hub_vars, life_vars, cp_vars, store_vars>>
    \/ stage_assemble_30 /\ UNCHANGED <<sup_vars, hub_vars, life_vars, cp_vars, store_vars>>
    \/ stage_assemble_45 /\ UNCHANGED <<sup_vars, hub_vars, life_vars, cp_vars, store_vars>>
    \/ stage_assemble_55 /\ UNCHANGED <<sup_vars, hub_vars, life_vars, cp_vars, store_vars>>
    \/ stage_validate_60 /\ UNCHANGED <<sup_vars, hub_vars, life_vars, cp_vars, store_vars>>
    \/ stage_validate_75 /\ UNCHANGED <<sup_vars, hub_vars, life_vars, cp_vars, store_vars>>
    \/ stage_finalize_80 /\ UNCHANGED <<sup_vars, hub_vars, life_vars, cp_vars, store_vars>>
    \/ stage_finalize_90 /\ UNCHANGED <<sup_vars, hub_vars, life_vars, cp_vars, store_vars>>
    \/ stage_finalize_95 /\ UNCHANGED <<sup_vars, hub_vars, life_vars, cp_vars, store_vars>>
    \/ process_job_complete /\ UNCHANGED <<sup_vars, hub_vars, life_vars, cp_vars, store_vars>>
    \/ run_loop_except /\ UNCHANGED <<sup_vars, hub_vars, life_vars, cp_vars, store_vars>>


\* ============================================================================
\* Game-server supervisor (server_python/app.py).  Flask serves every request
\* in its own thread; the functions below take no lock.
\* ============================================================================
Threads == {"t1", "t2"}

\* _find_available_port(start=7777, end=7877)
PortStart == 7777
PortEnd == 7877

NoHandle == [world_id |-> "", port |-> 0, process |-> 0]

ThreadIdle ==
    [op |-> "idle", pc |-> "idle", world_id |-> "", base_port |-> 0, process |-> 0,
     actual_port |-> 0, server_info |-> NoHandle, failed |-> FALSE, ready |-> FALSE]

Min(S) == CHOOSE x \in S : \A y \in S : x <= y

\* process and process.poll() is None
is_server_alive(ps, info) == info.process # 0 /\ ps[info.process].state # "exited"

\* _find_available_port, first half: dead servers are dropped from running_servers
prune_dead(rs, ps) ==
    [w \in DOMAIN rs |-> IF rs[w] # NoHandle /\ ~is_server_alive(ps, rs[w]) THEN NoHandle ELSE rs[w]]

\* Mutant: range(start, end + 1).
find_available_port_through_end(rs, ps) ==
    LET used == {rs[w].port : w \in {x \in DOMAIN rs : rs[x] # NoHandle /\ is_server_alive(ps, rs[x])}}
        free == {p \in PortStart..PortEnd : p \notin used}
    IN IF free = {} THEN 0 ELSE Min(free)

\* _find_available_port, second half: first port of range(start, end) that no
\* live registered server uses; 0 stands for None
find_available_port(rs, ps) ==
    LET used == {rs[w].port : w \in {x \in DOMAIN rs : rs[x] # NoHandle /\ is_server_alive(ps, rs[x])}}
        free == {p \in PortStart..(PortEnd - 1) : p \notin used}
    IN IF free = {} THEN 0 ELSE Min(free)

\* The processes spawned for the worlds whose requests are followed.
Spawned(ps) == {i \in DOMAIN ps : ps[i].world_id \in Worlds}

\* connect_ex(('127.0.0.1', port)) == 0: some process listens on the port
port_listening(ps, port) == \E i \in DOMAIN ps : ps[i].state = "listening" /\ ps[i].port = port

SetThread(t, fields) == sup_threads' = [sup_threads EXCEPT ![t] = fields @@ @]

\* POST /join: the request thread calls get_or_start_game_server(world_id)
join(t, w) ==
    /\ sup_threads[t].op = "idle"
    /\ calls < MaxCalls
    /\ SetThread(t, [op |-> "get", pc |-> "check", world_id |-> w])
    /\ calls' = calls + 1
    /\ UNCHANGED <<running_servers, procs, returned>>

\* Mutant: the cached server_info is returned without _is_server_alive.
get_or_start_check_no_poll(t) ==
    LET th == sup_threads[t]
        cached == running_servers[th.world_id]
    IN /\ th.pc = "check"
       /\ IF cached # NoHandle
            THEN /\ SetThread(t, [pc |-> "done", server_info |-> cached])
                 /\ UNCHANGED running_servers
            ELSE /\ SetThread(t, [pc |-> "find_port"])
                 /\ running_servers' = [running_servers EXCEPT ![th.world_id] = NoHandle]
       /\ UNCHANGED <<procs, returned, calls>>

\* get_or_start_game_server: the lookup of the cached server_info
get_or_start_check(t) ==
    LET th == sup_threads[t]
        cached == running_servers[th.world_id]
    IN /\ th.pc = "check"
       /\ IF cached # NoHandle /\ is_server_alive(procs, cached)
            THEN /\ SetThread(t, [pc |-> "done", server_info |-> cached])
                 /\ UNCHANGED running_servers
            ELSE /\ SetThread(t, [pc |-> "find_port"])
                 /\ running_servers' = [running_servers EXCEPT ![th.world_id] = NoHandle]
       /\ UNCHANGED <<procs, returned, calls>>

\* _start_game_server: base_port = _find_available_port()
start_find_port(t) ==
    LET th == sup_threads[t]
        base_port == find_available_port(running_servers, procs)
    IN /\ th.pc = "find_port"
       /\ running_servers' = prune_dead(running_servers, procs)
       /\ IF base_port = 0
            THEN SetThread(t, [pc |-> "done", failed |-> TRUE])
            ELSE SetThread(t, [pc |-> "popen", base_port |-> base_port])
       /\ UNCHANGED <<procs, returned, calls>>

\* _start_game_server: subprocess.Popen(cmd, ...)
start_popen(t) ==
    LET th == sup_threads[t]
    IN /\ th.pc = "popen"
       /\ Cardinality(Spawned(procs)) < MaxProcs
       /\ procs' = Append(procs, [world_id |-> th.world_id, state |-> "starting",
                                  suggested |-> th.base_port, port |-> 0, signals |-> <<>>])
       /\ SetThread(t, [pc |-> "wait_ready", process |-> Len(procs) + 1])
       /\ UNCHANGED <<running_servers, returned, calls>>

\* _start_game_server: Popen raises (FileNotFoundError or another exception)
start_popen_raises(t) ==
    /\ sup_threads[t].pc = "popen"
    /\ SetThread(t, [pc |-> "done", failed |-> TRUE])
    /\ UNCHANGED <<running_servers, procs, returned, calls>>

\* Mutant: process.poll() is not looked at after the wait has timed out.
start_wait_ready_no_poll(t) ==
    LET th == sup_threads[t]
        p == procs[th.process]
    IN /\ th.pc = "wait_ready"
       /\ CASE p.port # 0 -> SetThread(t, [pc |-> "probe", actual_port |-> p.port,
                                            ready |-> TRUE])
            [] OTHER -> SetThread(t, [pc |-> "probe", actual_port |-> th.base_port])
       /\ UNCHANGED <<running_servers, procs, returned, calls>>

\* _start_game_server: server_ready.wait(timeout=max_wait) and what follows it.
\* A process that has printed its port (port # 0) has set server_ready, whether
\* or not it is still running; process.poll() is looked at only after a timeout.
\* ready: what server_ready.wait returned, kept while the launch goes on.
start_wait_ready(t) ==
    LET th == sup_threads[t]
        p == procs[th.process]
    IN /\ th.pc = "wait_ready"
       /\ CASE p.port # 0 -> SetThread(t, [pc |-> "probe", actual_port |-> p.port,
                                            ready |-> TRUE])
            [] p.state = "exited" -> SetThread(t, [pc |-> "done", failed |-> TRUE])
            [] OTHER -> SetThread(t, [pc |-> "probe", actual_port |-> th.base_port])
       /\ UNCHANGED <<running_servers, procs, returned, calls>>

\* _start_game_server: the probe connects, server_info is built and returned
start_probe_connects(t) ==
    LET th == sup_threads[t]
    IN /\ th.pc = "probe"
       /\ port_listening(procs, th.actual_port)
       /\ SetThread(t, [pc |-> "register",
                        server_info |-> [world_id |-> th.world_id, port |-> th.actual_port,
                                         process |-> th.process]])
       /\ UNCHANGED <<running_servers, procs, returned, calls>>

\* _start_game_server: the process died, or nothing answered within
\* max_port_wait; None is returned and the process is left as it is
start_probe_gives_up(t) ==
    LET th == sup_threads[t]
    IN /\ th.pc = "probe"
       /\ ~port_listening(procs, th.actual_port)
       /\ SetThread(t, [pc |-> "done", failed |-> TRUE, ready |-> FALSE])
       /\ UNCHANGED <<running_servers, procs, returned, calls>>

\* get_or_start_game_server: running_servers[world_id] = server_info
get_or_start_register(t) ==
    LET th == sup_threads[t]
    IN /\ th.pc = "register"
       /\ running_servers' = [running_servers EXCEPT ![th.world_id] = th.server_info]
       /\ SetThread(t, [pc |-> "done", ready |-> FALSE])
       /\ UNCHANGED <<procs, returned, calls>>

\* DELETE /world/<world_id> and DELETE /admin/servers/<world_id>
stop(t, w) ==
    /\ sup_threads[t].op = "idle"
    /\ calls < MaxCalls
    /\ SetThread(t, [op |-> "stop", pc |-> "pop", world_id |-> w])
    /\ calls' = calls + 1
    /\ UNCHANGED <<running_servers, procs, returned>>

\* stop_game_server reading the handle with running_servers.get(world_id): the
\* cached handle stays where it is
stop_pop_get_only(t) ==
    LET th == sup_threads[t]
        info == running_servers[th.world_id]
    IN /\ th.pc = "pop"
       /\ IF info = NoHandle
            THEN SetThread(t, [pc |-> "done"])
            ELSE SetThread(t, [pc |-> "terminate", server_info |-> info])
       /\ UNCHANGED <<running_servers, procs, returned, calls>>

\* stop_game_server: server_info = running_servers.pop(world_id, None)
stop_pop(t) ==
    LET th == sup_threads[t]
        info == running_servers[th.world_id]
    IN /\ th.pc = "pop"
       /\ running_servers' = [running_servers EXCEPT ![th.world_id] = NoHandle]
       /\ IF info = NoHandle
            THEN SetThread(t, [pc |-> "done"])
            ELSE SetThread(t, [pc |-> "terminate", server_info |-> info])
       /\ UNCHANGED <<procs, returned, calls>>

\* stop_game_server: process.terminate()
stop_terminate(t) ==
    LET th == sup_threads[t]
    IN /\ th.pc = "terminate"
       /\ procs' = [procs EXCEPT ![th.server_info.process].signals = Append(@, "terminate")]
       /\ SetThread(t, [pc |-> "wait"])
       /\ UNCHANGED <<running_servers, returned, calls>>

\* stop_game_server: process.wait(timeout=5.0) returns, the process has exited
\* (it had exited before, or it ends within the timeout)
stop_wait_exits(t) ==
    LET th == sup_threads[t]
    IN /\ th.pc = "wait"
       /\ procs' = [procs EXCEPT ![th.server_info.process].state = "exited"]
       /\ SetThread(t, [pc |-> "done"])
       /\ UNCHANGED <<running_servers, returned, calls>>

\* stop_game_server: process.wait(timeout=5.0) raises TimeoutExpired, the
\* process is still running
stop_wait_timeout(t) ==
    LET th == sup_threads[t]
    IN /\ th.pc = "wait"
       /\ procs[th.server_info.process].state # "exited"
       /\ SetThread(t, [pc |-> "kill"])
       /\ UNCHANGED <<running_servers, procs, returned, calls>>

\* stop_game_server: except subprocess.TimeoutExpired: process.kill()
stop_kill(t) ==
    LET th == sup_threads[t]
    IN /\ th.pc = "kill"
       /\ procs' = [procs EXCEPT ![th.server_info.process].signals = Append(@, "kill"),
                                 ![th.server_info.process].state = "exited"]
       /\ SetThread(t, [pc |-> "done"])
       /\ UNCHANGED <<running_servers, returned, calls>>

\* The request thread sends its response; /join hands server_info to the caller
request_returns(t) ==
    LET th == sup_threads[t]
    IN /\ th.pc = "done"
       /\ th.op # "delete"
       /\ returned' = IF th.op = "get" /\ th.server_info # NoHandle
                        THEN returned \cup {th.server_info} ELSE returned
       /\ sup_threads' = [sup_threads EXCEPT ![t] = ThreadIdle]
       /\ UNCHANGED <<running_servers, procs, calls>>

\* The game server binds the suggested port, or the next free one above it,
\* and prints GAMESERVER_PORT=<port> and "TCP server listening on port"
proc_listens(i) ==
    LET bound == {procs[k].port : k \in {x \in DOMAIN procs : procs[x].state = "listening"}}
        port == Min({q \in procs[i].suggested..(procs[i].suggested + Cardinality(bound)) : q \notin bound})
    IN /\ procs[i].state = "starting"
       /\ procs' = [procs EXCEPT ![i].state = "listening", ![i].port = port]
       /\ UNCHANGED <<running_servers, sup_threads, returned, calls>>

\* The game-server process exits on its own: process.poll() is not None
proc_exits(i) ==
    /\ procs[i].state # "exited"
    /\ procs' = [procs EXCEPT ![i].state = "exited"]
    /\ UNCHANGED <<running_servers, sup_threads, returned, calls>>

\* ============================================================================
\* Sessions (server_python/app.py).
\* ============================================================================
SESSION_EXPIRY_SECONDS == 14400

\* secrets.token_urlsafe(32): every call returns a token not returned before.
Tokens == 1..MaxSessions

\* A token no session was created with.
UnknownToken == 0

\* active_sessions.get(session_token) of an absent key: None
NoSession == [session_token |-> 0, created_at |-> [iso |-> 0], expires_at |-> [iso |-> 0]]

\* datetime.isoformat() / datetime.fromisoformat() of a timezone-aware time
isoformat(t) == [iso |-> t]

fromisoformat(text) == text.iso

\* The times at which the model looks at the clock: the multiples of the expiry
\* period and the second after each.
Times == {k * SESSION_EXPIRY_SECONDS + e : k \in 0..MaxPeriods, e \in {0, 1}}

clock_advances ==
    /\ \E t \in Times : t > now /\ now' = t
    /\ UNCHANGED <<active_sessions, issued, validated, evicted, world_rows>>

\* create_session
create_session ==
    /\ issued < MaxSessions
    /\ issued' = issued + 1
    /\ active_sessions' = [active_sessions EXCEPT ![issued + 1] =
                              [session_token |-> issued + 1,
                               created_at |-> isoformat(now),
                               expires_at |-> isoformat(now + SESSION_EXPIRY_SECONDS)]]
    /\ UNCHANGED <<now, validated, evicted, world_rows>>

\* The outcome of validate_session: the value returned and the map it leaves.
ValidateOutcome(sessions, session_token, result, expired) ==
    [sessions |-> sessions, token |-> session_token, result |-> result, expired |-> expired]

\* Mutant: an expired session is reported as not found and stays in the map.
validate_session_no_evict(sessions, session_token) ==
    LET session == IF session_token \in DOMAIN sessions THEN sessions[session_token] ELSE NoSession
    IN IF session = NoSession THEN ValidateOutcome(sessions, session_token, NoSession, FALSE)
       ELSE IF now > fromisoformat(session.expires_at)
            THEN ValidateOutcome(sessions, session_token, NoSession, TRUE)
       ELSE ValidateOutcome(sessions, session_token, session, FALSE)

\* validate_session
validate_session(sessions, session_token) ==
    LET session == IF session_token \in DOMAIN sessions THEN sessions[session_token] ELSE NoSession
    IN IF session = NoSession THEN ValidateOutcome(sessions, session_token, NoSession, FALSE)
       ELSE IF now > fromisoformat(session.expires_at)
            THEN ValidateOutcome([sessions EXCEPT ![session_token] = NoSession],
                                 session_token, NoSession, TRUE)
       ELSE ValidateOutcome(sessions, session_token, session, FALSE)

\* A request that carries "Authorization: Bearer <token>" (GET /session).
api_validate(session_token) ==
    LET out == validate_session(active_sessions, session_token)
    IN /\ active_sessions' = out.sessions
       /\ validated' = [token |-> out.token, result |-> out.result, expired |-> out.expired]
       /\ evicted' = IF out.expired THEN evicted \cup {out.token} ELSE evicted
       /\ UNCHANGED <<now, issued, world_rows>>

\* ------------------------------------------- spell_storage.py on the disk
\* The revision directories as the operating system keeps them: below
\* data/spells/<spell_id>/revisions/<revision_id>/ every path is absent, a
\* directory or a file with its bytes. "" is the revision directory itself,
\* "code", "assets" and "text" are the directories of the layout.
StoreRevs == {[ver |-> 1, uid |-> 1]}

\* The relative paths a caller passes ("code" names a directory of the layout).
RelPaths == {"code/spell.gd", "assets/icon.png", "code"}

StoreContents == {[bytes |-> ScriptWithOnCast], [bytes |-> EmptyScript]}

NoBytes == [bytes |-> <<"-">>]

AbsentNode == [kind |-> "absent", content |-> NoBytes]

DirNode == [kind |-> "dir", content |-> NoBytes]

FileNode(content) == [kind |-> "file", content |-> content]

\* os.path.dirname, relative to the revision directory
dirname(path) ==
    CASE path = "code/spell.gd" -> "code"
      [] path = "assets/icon.png" -> "assets"
      [] OTHER -> ""

\* The node at a path of the disk; a path the disk does not hold is absent.
node_at(d, s, rid, path) ==
    IF <<s, rid, path>> \in DOMAIN d THEN d[<<s, rid, path>>] ELSE AbsentNode

\* os.makedirs(path, exist_ok=True) raises when the path or a parent is a file
makedirs_raises(d, s, rid, path) ==
    \E p \in {path, dirname(path), ""} : node_at(d, s, rid, p).kind = "file"

makedirs(d, s, rid, path) ==
    [k \in {<<s, rid, p>> : p \in {path, dirname(path), ""}} |-> DirNode] @@ d

os_path_exists(d, s, rid, path) == node_at(d, s, rid, path).kind # "absent"

StoreCall(op, s, rid, path, outcome, content, hash) ==
    [op |-> op, key |-> <<s, rid, path>>, outcome |-> outcome, content |-> content,
     hash |-> hash]

\* create_revision_directory: makedirs of code, assets and text, in this order
store_create_revision_directory(s, rid) ==
    /\ IF makedirs_raises(disk, s, rid, "code")
       THEN /\ disk' = disk
            /\ store_last' = StoreCall("create", s, rid, "", "FileExistsError", NoBytes,
                                       compute_file_hash(NoBytes))
       ELSE /\ disk' = makedirs(makedirs(makedirs(disk, s, rid, "code"), s, rid, "assets"),
                                s, rid, "text")
            /\ store_last' = StoreCall("create", s, rid, "", "dir", NoBytes,
                                       compute_file_hash(NoBytes))
    /\ UNCHANGED written

\* write_revision_file: makedirs(dirname(file_path)), open(file_path, "wb"),
\* f.write(content), and the info with the hash of the content
store_write_revision_file(s, rid, path, content) ==
    IF makedirs_raises(disk, s, rid, dirname(path))
    THEN /\ store_last' = StoreCall("write", s, rid, path, "FileExistsError", content,
                                    compute_file_hash(NoBytes))
         /\ UNCHANGED <<disk, written>>
    ELSE LET made == makedirs(disk, s, rid, dirname(path))
         IN IF node_at(made, s, rid, path).kind = "dir"
            THEN /\ disk' = made
                 /\ store_last' = StoreCall("write", s, rid, path, "IsADirectoryError",
                                            content, compute_file_hash(NoBytes))
                 /\ UNCHANGED written
            ELSE /\ disk' = (<<s, rid, path>> :> FileNode(content)) @@ made
                 /\ store_last' = StoreCall("write", s, rid, path, "info", content,
                                            compute_file_hash(content))
                 /\ written' = (<<s, rid, path>> :>
                                    [content |-> content, hash |-> compute_file_hash(content)])
                               @@ written

\* read_revision_file: None when os.path.exists is false, else open(file_path,
\* "rb") and f.read(); open raises on a directory
store_read_revision_file(s, rid, path) ==
    /\ LET node == node_at(disk, s, rid, path)
       IN store_last' =
              IF ~os_path_exists(disk, s, rid, path)
              THEN StoreCall("read", s, rid, path, "None", NoBytes, compute_file_hash(NoBytes))
              ELSE IF node.kind = "dir"
              THEN StoreCall("read", s, rid, path, "IsADirectoryError", NoBytes,
                             compute_file_hash(NoBytes))
              ELSE StoreCall("read", s, rid, path, "bytes", node.content,
                             compute_file_hash(node.content))
    /\ UNCHANGED <<disk, written>>

InitStore ==
    /\ disk = [k \in {} |-> AbsentNode]
    /\ written = [k \in {} |-> NoBytes]
    /\ store_last = StoreCall("none", "", NoRev, "", "None", NoBytes, compute_file_hash(NoBytes))

NextStore ==
    \/ \E s \in SpellIds, rid \in StoreRevs :
           store_create_revision_directory(s, rid) /\ UNCHANGED <<build_vars, sup_vars, hub_vars, life_vars, cp_vars>>
    \/ \E s \in SpellIds, rid \in StoreRevs, path \in RelPaths, content \in StoreContents :
           store_write_revision_file(s, rid, path, content) /\ UNCHANGED <<build_vars, sup_vars, hub_vars, life_vars, cp_vars>>
    \/ \E s \in SpellIds, rid \in StoreRevs, path \in RelPaths :
           store_read_revision_file(s, rid, path) /\ UNCHANGED <<build_vars, sup_vars, hub_vars, life_vars, cp_vars>>

InitCp ==
    /\ active_sessions = [t \in Tokens |-> NoSession]
    /\ now = 0
    /\ issued = 0
    /\ validated = [token |-> UnknownToken, result |-> NoSession, expired |-> FALSE]
    /\ evicted = {}
    /\ world_rows = Worlds
    /\ InitStore

NextSession ==
    \/ clock_advances /\ UNCHANGED <<build_vars, sup_vars, hub_vars, life_vars, store_vars>>
    \/ create_session /\ UNCHANGED <<build_vars, sup_vars, hub_vars, life_vars, store_vars>>
    \/ \E tok \in Tokens \cup {UnknownToken} : api_validate(tok) /\ UNCHANGED <<build_vars, sup_vars, hub_vars, life_vars, store_vars>>

InitSup ==
    /\ running_servers = [w \in Worlds |-> NoHandle]
    /\ procs = <<>>
    /\ sup_threads = [t \in Threads |-> ThreadIdle]
    /\ returned = {}
    /\ calls = 0
    /\ InitCp

\* ----------------------------------------------------- a loaded control plane
\* The worlds whose game servers were started before the requests that are
\* followed: world i was given port PortStart + i - 1 by _find_available_port
\* and its server bound it.
WorldOf(i) == "world_" \o ToString(i)

OtherWorlds == {WorldOf(i) : i \in 1..(PortEnd - PortStart)}

\* How many of them there are: as many as ports but one, as many as ports.
Loads == {PortEnd - PortStart - 1, PortEnd - PortStart}

\* Which of their processes have exited since: the first, or none when every
\* port is taken.
DeadSets(n) == IF n = PortEnd - PortStart THEN {{}, {1}} ELSE {{1}}

LoadedProcs(n, dead) ==
    [i \in 1..n |-> [world_id |-> WorldOf(i),
                     state |-> IF i \in dead THEN "exited" ELSE "listening",
                     suggested |-> PortStart + i - 1, port |-> PortStart + i - 1,
                     signals |-> <<>>]]

LoadedServers(n) ==
    [w \in Worlds \cup OtherWorlds |->
        IF \E i \in 1..n : w = WorldOf(i)
        THEN LET i == CHOOSE k \in 1..n : w = WorldOf(k)
             IN [world_id |-> w, port |-> PortStart + i - 1, process |-> i]
        ELSE NoHandle]

\* The world the followed requests join; it has no server yet.
JoinedWorld == "w1"

LoadedSup ==
    /\ \E n \in Loads : \E dead \in DeadSets(n) :
           /\ running_servers = LoadedServers(n)
           /\ procs = LoadedProcs(n, dead)
    /\ sup_threads = [t \in Threads |-> ThreadIdle]
    /\ returned = {}
    /\ calls = 0
    /\ InitCp

NextPorts ==
    \/ \E t \in Threads : join(t, JoinedWorld) /\ UNCHANGED <<build_vars, hub_vars, life_vars, cp_vars, store_vars>>
    \/ \E t \in Threads : get_or_start_check(t) /\ UNCHANGED <<build_vars, hub_vars, life_vars, cp_vars, store_vars>>
    \/ \E t \in Threads : start_find_port(t) /\ UNCHANGED <<build_vars, hub_vars, life_vars, cp_vars, store_vars>>
    \/ \E t \in Threads : start_popen(t) /\ UNCHANGED <<build_vars, hub_vars, life_vars, cp_vars, store_vars>>
    \/ \E t \in Threads : start_popen_raises(t) /\ UNCHANGED <<build_vars, hub_vars, life_vars, cp_vars, store_vars>>
    \/ \E t \in Threads : start_wait_ready(t) /\ UNCHANGED <<build_vars, hub_vars, life_vars, cp_vars, store_vars>>
    \/ \E t \in Threads : start_probe_connects(t) /\ UNCHANGED <<build_vars, hub_vars, life_vars, cp_vars, store_vars>>
    \/ \E t \in Threads : start_probe_gives_up(t) /\ UNCHANGED <<build_vars, hub_vars, life_vars, cp_vars, store_vars>>
    \/ \E t \in Threads : get_or_start_register(t) /\ UNCHANGED <<build_vars, hub_vars, life_vars, cp_vars, store_vars>>
    \/ \E t \in Threads : request_returns(t) /\ UNCHANGED <<build_vars, hub_vars, life_vars, cp_vars, store_vars>>
    \/ \E i \in Spawned(procs) : proc_listens(i) /\ UNCHANGED <<build_vars, hub_vars, life_vars, cp_vars, store_vars>>
    \/ \E i \in Spawned(procs) : proc_exits(i) /\ UNCHANGED <<build_vars, hub_vars, life_vars, cp_vars, store_vars>>

NextSup ==
    \/ \E t \in Threads, w \in Worlds : join(t, w) /\ UNCHANGED <<build_vars, hub_vars, life_vars, cp_vars, store_vars>>
    \/ \E t \in Threads : get_or_start_check(t) /\ UNCHANGED <<build_vars, hub_vars, life_vars, cp_vars, store_vars>>
    \/ \E t \in Threads : start_find_port(t) /\ UNCHANGED <<build_vars, hub_vars, life_vars, cp_vars, store_vars>>
    \/ \E t \in Threads : start_popen(t) /\ UNCHANGED <<build_vars, hub_vars, life_vars, cp_vars, store_vars>>
    \/ \E t \in Threads : start_popen_raises(t) /\ UNCHANGED <<build_vars, hub_vars, life_vars, cp_vars, store_vars>>
    \/ \E t \in Threads : start_wait_ready(t) /\ UNCHANGED <<build_vars, hub_vars, life_vars, cp_vars, store_vars>>
    \/ \E t \in Threads : start_probe_connects(t) /\ UNCHANGED <<build_vars, hub_vars, life_vars, cp_vars, store_vars>>
    \/ \E t \in Threads : start_probe_gives_up(t) /\ UNCHANGED <<build_vars, hub_vars, life_vars, cp_vars, store_vars>>
    \/ \E t \in Threads : get_or_start_register(t) /\ UNCHANGED <<build_vars, hub_vars, life_vars, cp_vars, store_vars>>
    \/ \E t \in Threads, w \in Worlds : stop(t, w) /\ UNCHANGED <<build_vars, hub_vars, life_vars, cp_vars, store_vars>>
    \/ \E t \in Threads : stop_pop(t) /\ UNCHANGED <<build_vars, hub_vars, life_vars, cp_vars, store_vars>>
    \/ \E t \in Threads : stop_terminate(t) /\ UNCHANGED <<build_vars, hub_vars, life_vars, cp_vars, store_vars>>
    \/ \E t \in Threads : stop_wait_exits(t) /\ UNCHANGED <<build_vars, hub_vars, life_vars, cp_vars, store_vars>>
    \/ \E t \in Threads : stop_wait_timeout(t) /\ UNCHANGED <<build_vars, hub_vars, life_vars, cp_vars, store_vars>>
    \/ \E t \in Threads : stop_kill(t) /\ UNCHANGED <<build_vars, hub_vars, life_vars, cp_vars, store_vars>>
    \/ \E t \in Threads : request_returns(t) /\ UNCHANGED <<build_vars, hub_vars, life_vars, cp_vars, store_vars>>
    \/ \E i \in DOMAIN procs : proc_listens(i) /\ UNCHANGED <<build_vars, hub_vars, life_vars, cp_vars, store_vars>>
    \/ \E i \in DOMAIN procs : proc_exits(i) /\ UNCHANGED <<build_vars, hub_vars, life_vars, cp_vars, store_vars>>


\* ------------------------------------------------- the launch, line by line
\* _start_game_server with its reader thread.  The process writes lines to its
\* stdout pipe; read_output takes them one at a time and sets the nonlocal
\* actual_port and the event server_ready, while the request thread waits,
\* tests actual_port, probes and builds server_info.  In the thread record
\* actual_port is the nonlocal (0 for None) and ready is server_ready.
PortLine(p) == [text |-> "GAMESERVER_PORT=", port |-> p]
ReadyLine == [text |-> "TCP server listening on port", port |-> 0]
OtherLine == [text |-> "Godot Engine", port |-> 0]

\* What a game server writes once it has bound port p: the two marker lines in
\* either order, or one of them alone.
Outputs(p) ==
    {<<PortLine(p), ReadyLine>>, <<ReadyLine, PortLine(p)>>, <<ReadyLine>>,
     <<OtherLine, PortLine(p)>>}

\* The port of the GAMESERVER_PORT= line among the lines, 0 when there is none.
ReportedPort(lines) ==
    LET ks == {k \in DOMAIN lines : lines[k].text = "GAMESERVER_PORT="}
    IN IF ks = {} THEN 0 ELSE lines[Min(ks)].port

\* The steps of _start_game_server during which its reader thread's writes to
\* actual_port and server_ready can still be seen by the request thread.
LaunchPcs == {"wait_ready", "check_port", "fallback", "probe", "build_info"}

\* subprocess.Popen(cmd, stdout=subprocess.PIPE, ...); reader_thread.start()
launch_popen(t) ==
    LET th == sup_threads[t]
    IN /\ th.pc = "popen"
       /\ Cardinality(Spawned(procs)) < MaxProcs
       /\ procs' = Append(procs, [world_id |-> th.world_id, state |-> "starting",
                                  suggested |-> th.base_port, port |-> 0, signals |-> <<>>,
                                  out |-> <<>>, reported |-> 0])
       /\ SetThread(t, [pc |-> "wait_ready", process |-> Len(procs) + 1])
       /\ UNCHANGED <<running_servers, returned, calls>>

\* The game server binds the suggested port, or the next free one above it,
\* and writes its lines to the pipe.
proc_binds_prints(i) ==
    LET bound == {procs[j].port : j \in {x \in DOMAIN procs : procs[x].state = "listening"}}
        port == Min({q \in procs[i].suggested..(procs[i].suggested + Cardinality(bound)) : q \notin bound})
    IN /\ procs[i].state = "starting"
       /\ \E lines \in Outputs(port) :
              procs' = [procs EXCEPT ![i].state = "listening", ![i].port = port,
                                     ![i].out = lines, ![i].reported = ReportedPort(lines)]
       /\ UNCHANGED <<running_servers, sup_threads, returned, calls>>

\* read_output: one turn of "for line in process.stdout"
read_output(t) ==
    LET th == sup_threads[t]
        line == Head(procs[th.process].out)
    IN /\ th.op = "get"
       /\ th.pc \in LaunchPcs
       /\ procs[th.process].out # <<>>
       /\ procs' = [procs EXCEPT ![th.process].out = Tail(@)]
       /\ CASE line.text = "GAMESERVER_PORT=" -> SetThread(t, [actual_port |-> line.port])
            [] line.text = "TCP server listening on port" -> SetThread(t, [ready |-> TRUE])
            [] OTHER -> UNCHANGED sup_threads
       /\ UNCHANGED <<running_servers, returned, calls>>

\* server_ready.wait(timeout=max_wait): it returns True once the event is set;
\* after max_wait it returns False and process.poll() is looked at.
\* in_time: what the wait returned.
launch_wait_ready(t) ==
    LET th == sup_threads[t]
    IN /\ th.pc = "wait_ready"
       /\ \/ th.ready /\ SetThread(t, [pc |-> "check_port", in_time |-> TRUE])
          \/ ~th.ready /\ IF procs[th.process].state = "exited"
                            THEN SetThread(t, [pc |-> "done", failed |-> TRUE])
                            ELSE SetThread(t, [pc |-> "check_port", in_time |-> FALSE])
       /\ UNCHANGED <<running_servers, procs, returned, calls>>

\* if actual_port is None:
launch_check_port(t) ==
    LET th == sup_threads[t]
    IN /\ th.pc = "check_port"
       /\ SetThread(t, [pc |-> IF th.actual_port = 0 THEN "fallback" ELSE "probe"])
       /\ UNCHANGED <<running_servers, procs, returned, calls>>

\* actual_port = base_port
launch_fallback(t) ==
    LET th == sup_threads[t]
    IN /\ th.pc = "fallback"
       /\ SetThread(t, [pc |-> "probe", actual_port |-> th.base_port])
       /\ UNCHANGED <<running_servers, procs, returned, calls>>

\* sock.connect_ex(('127.0.0.1', actual_port)) == 0: break
launch_probe_connects(t) ==
    LET th == sup_threads[t]
    IN /\ th.pc = "probe"
       /\ port_listening(procs, th.actual_port)
       /\ SetThread(t, [pc |-> "build_info"])
       /\ UNCHANGED <<running_servers, procs, returned, calls>>

\* server_info = {"world_id": world_id, ..., "port": actual_port, "process": process}
launch_build_info(t) ==
    LET th == sup_threads[t]
    IN /\ th.pc = "build_info"
       /\ SetThread(t, [pc |-> "register",
                        server_info |-> [world_id |-> th.world_id, port |-> th.actual_port,
                                         process |-> th.process]])
       /\ UNCHANGED <<running_servers, procs, returned, calls>>

NextLaunch ==
    \/ \E t \in Threads, w \in Worlds : join(t, w) /\ UNCHANGED <<build_vars, hub_vars, life_vars, cp_vars, store_vars>>
    \/ \E t \in Threads : get_or_start_check(t) /\ UNCHANGED <<build_vars, hub_vars, life_vars, cp_vars, store_vars>>
    \/ \E t \in Threads : start_find_port(t) /\ UNCHANGED <<build_vars, hub_vars, life_vars, cp_vars, store_vars>>
    \/ \E t \in Threads : launch_popen(t) /\ UNCHANGED <<build_vars, hub_vars, life_vars, cp_vars, store_vars>>
    \/ \E t \in Threads : start_popen_raises(t) /\ UNCHANGED <<build_vars, hub_vars, life_vars, cp_vars, store_vars>>
    \/ \E t \in Threads : read_output(t) /\ UNCHANGED <<build_vars, hub_vars, life_vars, cp_vars, store_vars>>
    \/ \E t \in Threads : launch_wait_ready(t) /\ UNCHANGED <<build_vars, hub_vars, life_vars, cp_vars, store_vars>>
    \/ \E t \in Threads : launch_check_port(t) /\ UNCHANGED <<build_vars, hub_vars, life_vars, cp_vars, store_vars>>
    \/ \E t \in Threads : launch_fallback(t) /\ UNCHANGED <<build_vars, hub_vars, life_vars, cp_vars, store_vars>>
    \/ \E t \in Threads : launch_probe_connects(t) /\ UNCHANGED <<build_vars, hub_vars, life_vars, cp_vars, store_vars>>
    \/ \E t \in Threads : start_probe_gives_up(t) /\ UNCHANGED <<build_vars, hub_vars, life_vars, cp_vars, store_vars>>
    \/ \E t \in Threads : launch_build_info(t) /\ UNCHANGED <<build_vars, hub_vars, life_vars, cp_vars, store_vars>>
    \/ \E t \in Threads : get_or_start_register(t) /\ UNCHANGED <<build_vars, hub_vars, life_vars, cp_vars, store_vars>>
    \/ \E t \in Threads : request_returns(t) /\ UNCHANGED <<build_vars, hub_vars, life_vars, cp_vars, store_vars>>
    \/ \E i \in DOMAIN procs : proc_binds_prints(i) /\ UNCHANGED <<build_vars, hub_vars, life_vars, cp_vars, store_vars>>
    \/ \E i \in DOMAIN procs : proc_exits(i) /\ UNCHANGED <<build_vars, hub_vars, life_vars, cp_vars, store_vars>>


\* ============================================================================
\* Realtime hub, asyncio server (ugc_backend/app.py).  One handle_client
\* coroutine per connection; a handler runs without interruption up to an await.
\* ============================================================================
Conns == {"c1", "c2"}

\* world_id values of a world.join message: a world, none, an unknown one
JoinInputs == Worlds \cup {"", "nowhere"}
SpellTypes == {"create_land", "dig", "teleport"}

\* A key of a JSON object: absent, null, or an integer
KeyAbsent == [key |-> FALSE, null |-> FALSE, int |-> 0]
JsonNull == [key |-> TRUE, null |-> TRUE, int |-> 0]
JsonInt(n) == [key |-> TRUE, null |-> FALSE, int |-> n]

\* dict.get(key): None for an absent key
DictGet(v) == IF v.key THEN v ELSE JsonNull

Msg(type, world_id, ops) == [type |-> type, world_id |-> world_id, ops |-> ops]

NoMsg == [type |-> "none"]

NoCont == [kind |-> "none", world_id |-> "", msg |-> NoMsg]

\* Mutant: MIN written for MAX.
update_world_player_count_min(pc, world_id, delta) ==
    IF world_id \in DOMAIN pc
      THEN [pc EXCEPT ![world_id] = IF @ + delta < 0 THEN @ + delta ELSE 0]
      ELSE pc

\* UPDATE worlds SET player_count = MAX(0, player_count + ?) WHERE world_id = ?
update_world_player_count(pc, world_id, delta) ==
    IF world_id \in DOMAIN pc
      THEN [pc EXCEPT ![world_id] = IF @ + delta > 0 THEN @ + delta ELSE 0]
      ELSE pc

\* INSERT INTO world_ops (world_id, op_type, op_data, created_at)
add_world_op(ops, op_id, world_id, op_type, op_data) ==
    ops \cup {[op_id |-> op_id, world_id |-> world_id, op_type |-> op_type, op_data |-> op_data]}

RECURSIVE OrderByOpId(_)
OrderByOpId(rows) ==
    IF rows = {} THEN <<>>
    ELSE LET first == CHOOSE r \in rows : \A q \in rows : r.op_id <= q.op_id
         IN <<first>> \o OrderByOpId(rows \ {first})

\* SELECT * FROM world_ops WHERE world_id = ? ORDER BY op_id ASC
get_world_ops(ops, world_id) == OrderByOpId({r \in ops : r.world_id = world_id})

\* DELETE FROM world_ops WHERE world_id = ?
clear_world_ops(ops, world_id) == {r \in ops : r.world_id # world_id}

\* handle_legacy_spell: the op a spell compiles to.  center is the payload the
\* client chose, here the number of the request; radius is left out.
CompileOp(spell_type, center) ==
    IF spell_type = "create_land"
      THEN [op |-> "add_sphere", center |-> center, material_id |-> JsonInt(1)]
      ELSE [op |-> "subtract_sphere", center |-> center, material_id |-> KeyAbsent]

\* handle_legacy_spell: the op_data stored with the op
OpData(op) == [center |-> op.center, material_id |-> DictGet(op.material_id)]

\* handle_join_world: op_data = op_record['op_data']; op_data['op'] = op_record['op_type']
ReplayOp(op_record) ==
    [op |-> op_record.op_type, center |-> op_record.op_data.center,
     material_id |-> op_record.op_data.material_id]

ReplayList(ops) == [i \in DOMAIN ops |-> ReplayOp(ops[i])]

\* send_to_client: websocket.send, a failure on a closed connection is swallowed
Send(rc, c, msg) == IF conn_state[c] = "open" THEN [rc EXCEPT ![c] = Append(@, msg)] ELSE rc

\* The handler of connection c has returned: it waits at no await and no send
\* task of a broadcast it gathers is outstanding.
HandlerIdle(c) == busy[c] = NoCont /\ \A i \in DOMAIN tasks : tasks[i].owner # c

CanHandle(c) == conn_state[c] = "open" /\ HandlerIdle(c) /\ hub_msgs < MaxHubMsgs

\* broadcast_to_world called with exclude=websocket: no send task for the sender
Broadcast_exclude_sender(c, world_id, msg) ==
    LET to == {k \in connected_clients \ {c} : client_worlds[k] = world_id}
    IN IF to = {} THEN tasks ELSE Append(tasks, [msg |-> msg, to |-> to, owner |-> c])

\* broadcast_to_world: one send task per connected client whose world is world_id
Broadcast(c, world_id, msg) ==
    LET to == {k \in connected_clients : client_worlds[k] = world_id}
    IN IF to = {} THEN tasks ELSE Append(tasks, [msg |-> msg, to |-> to, owner |-> c])

\* SELECT 1 FROM worlds WHERE world_id = ?
world_exists(rows, world_id) == world_id \in rows

\* handle_client: the connection is accepted
handle_client_connect(c) ==
    /\ conn_state[c] = "new"
    /\ conn_state' = [conn_state EXCEPT ![c] = "open"]
    /\ connected_clients' = connected_clients \cup {c}
    /\ UNCHANGED <<client_worlds, player_count, world_ops, next_op_id, recv, tasks, busy,
                   appended, append_order, joins, hub_msgs>>

\* Mutant: the current world is left before world_id is looked at.
handle_join_world_leaves_first(c, world_id) ==
    LET current_world == client_worlds[c]
        left == IF current_world # NULL
                  THEN update_world_player_count(player_count, current_world, -1)
                  ELSE player_count
    IN /\ CanHandle(c)
       /\ hub_msgs' = hub_msgs + 1
       /\ IF world_id = "" \/ ~world_exists(world_rows, world_id)
            THEN /\ recv' = Send(recv, c, Msg("error", world_id, <<>>))
                 /\ client_worlds' = [client_worlds EXCEPT ![c] = NULL]
                 /\ player_count' = left
                 /\ UNCHANGED busy
            ELSE /\ client_worlds' = [client_worlds EXCEPT ![c] = world_id]
                 /\ player_count' = update_world_player_count(left, world_id, 1)
                 /\ recv' = Send(recv, c, Msg("world.joined", world_id, <<>>))
                 /\ busy' = [busy EXCEPT ![c] = [kind |-> "join_sync", world_id |-> world_id,
                                                msg |-> NoMsg]]
       /\ UNCHANGED <<conn_state, connected_clients, world_ops, next_op_id, tasks, appended,
                      append_order, joins>>

\* handle_join_world, up to the end of the send of world.joined
handle_join_world(c, world_id) ==
    /\ CanHandle(c)
    /\ hub_msgs' = hub_msgs + 1
    /\ IF world_id = "" \/ ~world_exists(world_rows, world_id)
         THEN /\ recv' = Send(recv, c, Msg("error", world_id, <<>>))
              /\ UNCHANGED <<client_worlds, player_count, busy>>
         ELSE LET current_world == client_worlds[c]
                  left == IF current_world # NULL
                            THEN update_world_player_count(player_count, current_world, -1)
                            ELSE player_count
              IN /\ client_worlds' = [client_worlds EXCEPT ![c] = world_id]
                 /\ player_count' = update_world_player_count(left, world_id, 1)
                 /\ recv' = Send(recv, c, Msg("world.joined", world_id, <<>>))
                 /\ busy' = [busy EXCEPT ![c] = [kind |-> "join_sync", world_id |-> world_id,
                                                msg |-> NoMsg]]
    /\ UNCHANGED <<conn_state, connected_clients, world_ops, next_op_id, tasks, appended,
                   append_order, joins>>

\* handle_join_world, from get_world_ops to the end
handle_join_world_sync(c) ==
    LET world_id == busy[c].world_id
        ops == get_world_ops(world_ops, world_id)
        reply == IF ops # <<>> THEN Msg("sync_ops", world_id, ReplayList(ops))
                 ELSE Msg("sync_complete", world_id, <<>>)
    IN /\ busy[c].kind = "join_sync"
       /\ recv' = Send(recv, c, reply)
       /\ busy' = [busy EXCEPT ![c] = NoCont]
       /\ joins' = Append(joins, [conn |-> c, world_id |-> world_id, log |-> appended[world_id],
                                  reply |-> <<Msg("world.joined", world_id, <<>>), reply>>])
       /\ UNCHANGED <<conn_state, connected_clients, client_worlds, player_count, world_ops,
                      next_op_id, tasks, appended, append_order, hub_msgs>>

\* handle_leave_world
handle_leave_world(c) ==
    LET world_id == client_worlds[c]
    IN /\ CanHandle(c)
       /\ hub_msgs' = hub_msgs + 1
       /\ client_worlds' = [client_worlds EXCEPT ![c] = NULL]
       /\ player_count' = IF world_id # NULL
                            THEN update_world_player_count(player_count, world_id, -1)
                            ELSE player_count
       /\ recv' = Send(recv, c, Msg("world.left", IF world_id # NULL THEN world_id ELSE "", <<>>))
       /\ UNCHANGED <<conn_state, connected_clients, world_ops, next_op_id, tasks, busy,
                      appended, append_order, joins>>

\* Mutant: the type of the spell is not checked.
handle_legacy_spell_any_type(c, spell_type) ==
    LET world_id == client_worlds[c]
        op == CompileOp(spell_type, hub_msgs + 1)
    IN /\ CanHandle(c)
       /\ hub_msgs' = hub_msgs + 1
       /\ IF world_id = NULL
            THEN /\ recv' = Send(recv, c, Msg("spell_rejected", "", <<>>))
                 /\ UNCHANGED <<world_ops, next_op_id, tasks, appended, append_order>>
            ELSE /\ world_ops' = add_world_op(world_ops, next_op_id, world_id, op.op, OpData(op))
                 /\ next_op_id' = next_op_id + 1
                 /\ tasks' = Broadcast(c, world_id, Msg("apply_op", world_id, <<op>>))
                 /\ appended' = [appended EXCEPT ![world_id] = Append(@, op)]
                 /\ append_order' = Append(append_order, op.center)
                 /\ UNCHANGED recv
       /\ UNCHANGED <<conn_state, connected_clients, client_worlds, player_count, busy, joins>>

\* handle_legacy_spell
handle_legacy_spell(c, spell_type) ==
    LET world_id == client_worlds[c]
        op == CompileOp(spell_type, hub_msgs + 1)
    IN /\ CanHandle(c)
       /\ hub_msgs' = hub_msgs + 1
       /\ IF world_id = NULL \/ spell_type \notin {"create_land", "dig"}
            THEN /\ recv' = Send(recv, c, Msg("spell_rejected", "", <<>>))
                 /\ UNCHANGED <<world_ops, next_op_id, tasks, appended, append_order>>
            ELSE /\ world_ops' = add_world_op(world_ops, next_op_id, world_id, op.op, OpData(op))
                 /\ next_op_id' = next_op_id + 1
                 /\ tasks' = Broadcast(c, world_id, Msg("apply_op", world_id, <<op>>))
                 /\ appended' = [appended EXCEPT ![world_id] = Append(@, op)]
                 /\ append_order' = Append(append_order, op.center)
                 /\ UNCHANGED recv
       /\ UNCHANGED <<conn_state, connected_clients, client_worlds, player_count, busy, joins>>

\* handle_clear_world
handle_clear_world(c) ==
    LET world_id == client_worlds[c]
    IN /\ CanHandle(c)
       /\ hub_msgs' = hub_msgs + 1
       /\ IF world_id = NULL
            THEN /\ recv' = Send(recv, c, Msg("error", "", <<>>))
                 /\ UNCHANGED <<world_ops, tasks, appended>>
            ELSE /\ world_ops' = clear_world_ops(world_ops, world_id)
                 /\ tasks' = Broadcast(c, world_id, Msg("world_cleared", world_id, <<>>))
                 /\ appended' = [appended EXCEPT ![world_id] = <<>>]
                 /\ UNCHANGED recv
       /\ UNCHANGED <<conn_state, connected_clients, client_worlds, player_count, next_op_id,
                      busy, append_order, joins>>

\* spell.cast_request: spell_id and revision_id of the message; "" and NoRev
\* stand for a key that is missing.
CastInputs ==
    {[spell_id |-> "", revision_id |-> NoRev]}
    \cup {[spell_id |-> s, revision_id |-> NoRev] : s \in SpellIds}
    \cup {[spell_id |-> "fireball", revision_id |-> [ver |-> 1, uid |-> 1]]}

\* The messages of a cast: spell.cast_rejected, error, spell.cast_event.  The
\* seed, the caster and the timestamp of the event are left out.
CastMsg(type, world_id, spell_id, revision_id) ==
    [type |-> type, world_id |-> world_id, ops |-> <<>>, spell_id |-> spell_id,
     revision_id |-> revision_id]

\* spell.get('active_beta_rev') or spell.get('active_stable_rev')
ActiveRevision(sp, spell_id) ==
    IF sp[spell_id].beta # NoRev THEN sp[spell_id].beta ELSE sp[spell_id].stable

\* Mutant: the cast is stored in the op log of the world as well.
handle_cast_request_logs(c, spell_id, revision_id) ==
    LET world_id == client_worlds[c]
        rev == IF revision_id # NoRev \/ spell_id = "" \/ ~spell_exists(spells, spell_id)
                 THEN revision_id ELSE ActiveRevision(spells, spell_id)
        cast == world_id # NULL /\ spell_id # "" /\ spell_exists(spells, spell_id) /\ rev # NoRev
    IN /\ CanHandle(c)
       /\ hub_msgs' = hub_msgs + 1
       /\ CASE world_id = NULL ->
                 /\ recv' = Send(recv, c, CastMsg("spell.cast_rejected", "", spell_id, NoRev))
                 /\ UNCHANGED <<tasks, world_ops, next_op_id>>
            [] world_id # NULL /\ spell_id = "" ->
                 /\ recv' = Send(recv, c, CastMsg("error", "", "", NoRev))
                 /\ UNCHANGED <<tasks, world_ops, next_op_id>>
            [] world_id # NULL /\ spell_id # "" /\ ~cast ->
                 /\ recv' = Send(recv, c, CastMsg("spell.cast_rejected", "", spell_id, NoRev))
                 /\ UNCHANGED <<tasks, world_ops, next_op_id>>
            [] cast ->
                 /\ tasks' = Broadcast(c, world_id, CastMsg("spell.cast_event", world_id, spell_id, rev))
                 /\ world_ops' = add_world_op(world_ops, next_op_id, world_id, "cast",
                                              [center |-> hub_msgs + 1, material_id |-> JsonNull])
                 /\ next_op_id' = next_op_id + 1
                 /\ UNCHANGED recv
       /\ UNCHANGED <<conn_state, connected_clients, client_worlds, player_count,
                      busy, appended, append_order, joins>>

\* handle_cast_request
handle_cast_request(c, spell_id, revision_id) ==
    LET world_id == client_worlds[c]
        rev == IF revision_id # NoRev \/ spell_id = "" \/ ~spell_exists(spells, spell_id)
                 THEN revision_id ELSE ActiveRevision(spells, spell_id)
        cast == world_id # NULL /\ spell_id # "" /\ spell_exists(spells, spell_id) /\ rev # NoRev
    IN /\ CanHandle(c)
       /\ hub_msgs' = hub_msgs + 1
       /\ CASE world_id = NULL ->
                 /\ recv' = Send(recv, c, CastMsg("spell.cast_rejected", "", spell_id, NoRev))
                 /\ UNCHANGED tasks
            [] world_id # NULL /\ spell_id = "" ->
                 /\ recv' = Send(recv, c, CastMsg("error", "", "", NoRev))
                 /\ UNCHANGED tasks
            [] world_id # NULL /\ spell_id # "" /\ ~cast ->
                 /\ recv' = Send(recv, c, CastMsg("spell.cast_rejected", "", spell_id, NoRev))
                 /\ UNCHANGED tasks
            [] cast ->
                 /\ tasks' = Broadcast(c, world_id, CastMsg("spell.cast_event", world_id, spell_id, rev))
                 /\ UNCHANGED recv
       /\ UNCHANGED <<conn_state, connected_clients, client_worlds, player_count, world_ops,
                      next_op_id, busy, appended, append_order, joins>>

\* await asyncio.gather(*tasks) without return_exceptions: the exception of a
\* failed send is raised in the broadcasting handler, leaves handle_message, and
\* ends the message loop of the sender's handle_client
gather_raising(cs, owner, send_failed) ==
    IF send_failed /\ cs[owner] = "open" THEN [cs EXCEPT ![owner] = "closed"] ELSE cs

\* await asyncio.gather(*tasks, return_exceptions=True): the exception of a
\* failed send becomes an entry of the result list, which is dropped
gather(cs, owner, send_failed) == cs

\* broadcast_to_world: the send task for connection c of the oldest broadcast
\* runs; client.send raises when the connection is not open
send_task_runs(c) ==
    /\ tasks # <<>>
    /\ c \in Head(tasks).to
    /\ recv' = Send(recv, c, Head(tasks).msg)
    /\ tasks' = IF Head(tasks).to = {c} THEN Tail(tasks)
                ELSE [tasks EXCEPT ![1].to = @ \ {c}]
    /\ conn_state' = gather(conn_state, Head(tasks).owner, conn_state[c] # "open")
    /\ UNCHANGED <<connected_clients, client_worlds, player_count, world_ops,
                   next_op_id, busy, appended, append_order, joins, hub_msgs>>

\* The peer closes the connection.
peer_closes(c) ==
    /\ conn_state[c] = "open"
    /\ conn_state' = [conn_state EXCEPT ![c] = "closed"]
    /\ UNCHANGED <<connected_clients, client_worlds, player_count, world_ops, next_op_id, recv,
                   tasks, busy, appended, append_order, joins, hub_msgs>>

\* handle_client: the finally block
handle_client_finally(c) ==
    LET world_id == client_worlds[c]
    IN /\ conn_state[c] = "closed"
       /\ HandlerIdle(c)
       /\ client_worlds' = [client_worlds EXCEPT ![c] = NULL]
       /\ player_count' = IF world_id # NULL
                            THEN update_world_player_count(player_count, world_id, -1)
                            ELSE player_count
       /\ connected_clients' = connected_clients \ {c}
       /\ conn_state' = [conn_state EXCEPT ![c] = "gone"]
       /\ UNCHANGED <<world_ops, next_op_id, recv, tasks, busy, appended, append_order, joins,
                      hub_msgs>>

InitHub ==
    /\ conn_state = [c \in Conns |-> "new"]
    /\ connected_clients = {}
    /\ client_worlds = [c \in Conns |-> NULL]
    /\ player_count = [w \in Worlds |-> 0]
    /\ world_ops = {}
    /\ next_op_id = 1
    /\ recv = [c \in Conns |-> <<>>]
    /\ tasks = <<>>
    /\ busy = [c \in Conns |-> NoCont]
    /\ appended = [w \in Worlds |-> <<>>]
    /\ append_order = <<>>
    /\ joins = <<>>
    /\ hub_msgs = 0

NextHub ==
    \/ \E c \in Conns : handle_client_connect(c) /\ UNCHANGED <<build_vars, sup_vars, sio_vars, life_vars, cp_vars, store_vars>>
    \/ \E c \in Conns, w \in JoinInputs : handle_join_world(c, w) /\ UNCHANGED <<build_vars, sup_vars, sio_vars, life_vars, cp_vars, store_vars>>
    \/ \E c \in Conns : handle_join_world_sync(c) /\ UNCHANGED <<build_vars, sup_vars, sio_vars, life_vars, cp_vars, store_vars>>
    \/ \E c \in Conns : handle_leave_world(c) /\ UNCHANGED <<build_vars, sup_vars, sio_vars, life_vars, cp_vars, store_vars>>
    \/ \E c \in Conns, ty \in SpellTypes : handle_legacy_spell(c, ty) /\ UNCHANGED <<build_vars, sup_vars, sio_vars, life_vars, cp_vars, store_vars>>
    \/ \E c \in Conns : handle_clear_world(c) /\ UNCHANGED <<build_vars, sup_vars, sio_vars, life_vars, cp_vars, store_vars>>
    \/ \E c \in Conns : send_task_runs(c) /\ UNCHANGED <<build_vars, sup_vars, sio_vars, life_vars, cp_vars, store_vars>>
    \/ \E c \in Conns : peer_closes(c) /\ UNCHANGED <<build_vars, sup_vars, sio_vars, life_vars, cp_vars, store_vars>>
    \/ \E c \in Conns : handle_client_finally(c) /\ UNCHANGED <<build_vars, sup_vars, sio_vars, life_vars, cp_vars, store_vars>>


\* ============================================================================
\* Realtime hub, Socket.IO servers (ugc_backend/app_socketio.py and
\* server_python/app.py), async_mode='threading': every event handler runs in a
\* thread of its own, also two handlers of one client.
\* ============================================================================
Handlers == 1..MaxHandlers

NoHandler ==
    [kind |-> "none", pc |-> "", conn |-> "", world_id |-> "", current_world |-> "",
     spell_type |-> "", center |-> 0]

FreeHandler == CHOOSE h \in Handlers : handlers[h] = NoHandler /\ \A g \in Handlers : g < h => handlers[g] # NoHandler

CanStart(c) ==
    /\ conn_state[c] = "open"
    /\ hub_msgs < MaxHubMsgs
    /\ \E h \in Handlers : handlers[h] = NoHandler

SetHandler(h, fields) == handlers' = [handlers EXCEPT ![h] = fields @@ @]

Return(h) == handlers' = [handlers EXCEPT ![h] = NoHandler]

At(h, kind, pc) == handlers[h].kind = kind /\ handlers[h].pc = pc

\* socketio.emit(event, data, room=world_id)
EmitRoom(rc, world_id, msg) ==
    [c \in Conns |-> IF <<c, world_id>> \in rooms /\ conn_state[c] = "open"
                       THEN Append(rc[c], msg) ELSE rc[c]]

\* @socketio.on('connect')
sio_handle_connect(c) ==
    /\ conn_state[c] = "new"
    /\ conn_state' = [conn_state EXCEPT ![c] = "open"]
    /\ connected_clients' = connected_clients \cup {c}
    /\ UNCHANGED <<client_worlds, player_count, world_ops, next_op_id, recv, tasks, busy,
                   appended, append_order, joins, hub_msgs, server, rooms, handlers>>

\* A client event arrives and its handler thread starts.
sio_event(c, kind, world_id, spell_type) ==
    /\ CanStart(c)
    /\ kind \in {"request_spell", "clear_world"} => server = "sio"
    /\ hub_msgs' = hub_msgs + 1
    /\ SetHandler(FreeHandler, [kind |-> kind, pc |-> "start", conn |-> c, world_id |-> world_id,
                                spell_type |-> spell_type, center |-> hub_msgs + 1])
    /\ UNCHANGED <<conn_state, connected_clients, client_worlds, player_count, world_ops,
                   next_op_id, recv, tasks, busy, appended, append_order, joins, server, rooms>>

\* handle_join_world / _handle_world_join: the checks, current_world = client_worlds.get(sid)
sio_join_start(h) ==
    LET hd == handlers[h]
    IN /\ At(h, "world.join", "start")
       /\ IF hd.world_id = "" \/ ~world_exists(world_rows, hd.world_id)
            THEN /\ recv' = Send(recv, hd.conn, Msg("error", hd.world_id, <<>>))
                 /\ Return(h)
            ELSE /\ SetHandler(h, [pc |-> IF client_worlds[hd.conn] # NULL THEN "leave_old" ELSE "join_room",
                                   current_world |-> client_worlds[hd.conn]])
                 /\ UNCHANGED recv
       /\ UNCHANGED <<conn_state, connected_clients, client_worlds, player_count, world_ops,
                      next_op_id, tasks, busy, appended, append_order, joins, hub_msgs, server, rooms>>

\* leave_room(current_world); update_world_player_count(current_world, -1)
sio_join_leave_old(h) ==
    LET hd == handlers[h]
    IN /\ At(h, "world.join", "leave_old")
       /\ rooms' = rooms \ {<<hd.conn, hd.current_world>>}
       /\ player_count' = update_world_player_count(player_count, hd.current_world, -1)
       /\ SetHandler(h, [pc |-> "join_room"])
       /\ UNCHANGED <<conn_state, connected_clients, client_worlds, world_ops, next_op_id, recv,
                      tasks, busy, appended, append_order, joins, hub_msgs, server>>

\* join_room(world_id)
sio_join_room(h) ==
    LET hd == handlers[h]
    IN /\ At(h, "world.join", "join_room")
       /\ rooms' = rooms \cup {<<hd.conn, hd.world_id>>}
       /\ SetHandler(h, [pc |-> "set_world"])
       /\ UNCHANGED <<conn_state, connected_clients, client_worlds, player_count, world_ops,
                      next_op_id, recv, tasks, busy, appended, append_order, joins, hub_msgs, server>>

\* client_worlds[client_id] = world_id
sio_join_set_world(h) ==
    LET hd == handlers[h]
    IN /\ At(h, "world.join", "set_world")
       /\ client_worlds' = [client_worlds EXCEPT ![hd.conn] = hd.world_id]
       /\ SetHandler(h, [pc |-> "count"])
       /\ UNCHANGED <<conn_state, connected_clients, player_count, world_ops, next_op_id, recv,
                      tasks, busy, appended, append_order, joins, hub_msgs, server, rooms>>

\* update_world_player_count(world_id, 1); emit world.joined.  _handle_world_join
\* of server_python ends here.
sio_join_count(h) ==
    LET hd == handlers[h]
        joined == Msg("world.joined", hd.world_id, <<>>)
    IN /\ At(h, "world.join", "count")
       /\ player_count' = update_world_player_count(player_count, hd.world_id, 1)
       /\ recv' = Send(recv, hd.conn, joined)
       /\ IF server = "cp"
            THEN /\ Return(h)
                 /\ joins' = Append(joins, [conn |-> hd.conn, world_id |-> hd.world_id,
                                            log |-> appended[hd.world_id], reply |-> <<joined>>])
            ELSE /\ SetHandler(h, [pc |-> "sync"])
                 /\ UNCHANGED joins
       /\ UNCHANGED <<conn_state, connected_clients, client_worlds, world_ops, next_op_id, tasks,
                      busy, appended, append_order, hub_msgs, server, rooms>>

\* app_socketio.handle_join_world: ops = get_world_ops(world_id); emit sync_ops or sync_complete
sio_join_sync(h) ==
    LET hd == handlers[h]
        ops == get_world_ops(world_ops, hd.world_id)
        reply == IF ops # <<>> THEN Msg("sync_ops", hd.world_id, ReplayList(ops))
                 ELSE Msg("sync_complete", hd.world_id, <<>>)
    IN /\ At(h, "world.join", "sync")
       /\ recv' = Send(recv, hd.conn, reply)
       /\ joins' = Append(joins, [conn |-> hd.conn, world_id |-> hd.world_id,
                                  log |-> appended[hd.world_id],
                                  reply |-> <<Msg("world.joined", hd.world_id, <<>>), reply>>])
       /\ Return(h)
       /\ UNCHANGED <<conn_state, connected_clients, client_worlds, player_count, world_ops,
                      next_op_id, tasks, busy, appended, append_order, hub_msgs, server, rooms>>

\* The leave reading the world with client_worlds.get(client_id): the entry of
\* the connection stays in client_worlds
sio_leave_get_only(h) ==
    LET hd == handlers[h]
        world_id == client_worlds[hd.conn]
    IN /\ At(h, "world.leave", "start") \/ At(h, "disconnect", "start")
       /\ IF world_id # NULL
            THEN SetHandler(h, [pc |-> "leave_room", world_id |-> world_id]) /\ UNCHANGED recv
            ELSE IF hd.kind = "disconnect"
                   THEN SetHandler(h, [pc |-> "discard"]) /\ UNCHANGED recv
                   ELSE /\ Return(h)
                        /\ recv' = Send(recv, hd.conn, Msg("world.left", "", <<>>))
       /\ UNCHANGED <<conn_state, connected_clients, client_worlds, player_count, world_ops,
                      next_op_id, tasks, busy, appended, append_order, joins, hub_msgs, server, rooms>>

\* handle_leave_world / _handle_world_leave, and handle_disconnect:
\* world_id = client_worlds.pop(client_id, None)
sio_leave_pop(h) ==
    LET hd == handlers[h]
        world_id == client_worlds[hd.conn]
    IN /\ At(h, "world.leave", "start") \/ At(h, "disconnect", "start")
       /\ client_worlds' = [client_worlds EXCEPT ![hd.conn] = NULL]
       /\ IF world_id # NULL
            THEN SetHandler(h, [pc |-> "leave_room", world_id |-> world_id]) /\ UNCHANGED recv
            ELSE IF hd.kind = "disconnect"
                   THEN SetHandler(h, [pc |-> "discard"]) /\ UNCHANGED recv
                   ELSE /\ Return(h)
                        /\ recv' = Send(recv, hd.conn, Msg("world.left", "", <<>>))
       /\ UNCHANGED <<conn_state, connected_clients, player_count, world_ops, next_op_id, tasks,
                      busy, appended, append_order, joins, hub_msgs, server, rooms>>

\* leave_room(world_id); update_world_player_count(world_id, -1); emit world.left
sio_leave_room(h) ==
    LET hd == handlers[h]
    IN /\ At(h, "world.leave", "leave_room") \/ At(h, "disconnect", "leave_room")
       /\ rooms' = rooms \ {<<hd.conn, hd.world_id>>}
       /\ player_count' = update_world_player_count(player_count, hd.world_id, -1)
       /\ IF hd.kind = "disconnect"
            THEN SetHandler(h, [pc |-> "discard"]) /\ UNCHANGED recv
            ELSE Return(h) /\ recv' = Send(recv, hd.conn, Msg("world.left", hd.world_id, <<>>))
       /\ UNCHANGED <<conn_state, connected_clients, client_worlds, world_ops, next_op_id, tasks,
                      busy, appended, append_order, joins, hub_msgs, server>>

\* The peer closes the connection: @socketio.on('disconnect') starts.
sio_peer_closes(c) ==
    /\ CanStart(c)
    /\ hub_msgs' = hub_msgs + 1
    /\ conn_state' = [conn_state EXCEPT ![c] = "closed"]
    /\ SetHandler(FreeHandler, [kind |-> "disconnect", pc |-> "start", conn |-> c])
    /\ UNCHANGED <<connected_clients, client_worlds, player_count, world_ops, next_op_id, recv,
                   tasks, busy, appended, append_order, joins, server, rooms>>

\* handle_disconnect: connected_clients.discard(client_id)
sio_disconnect_discard(h) ==
    LET hd == handlers[h]
    IN /\ At(h, "disconnect", "discard")
       /\ connected_clients' = connected_clients \ {hd.conn}
       /\ conn_state' = [conn_state EXCEPT ![hd.conn] = "gone"]
       /\ Return(h)
       /\ UNCHANGED <<client_worlds, player_count, world_ops, next_op_id, recv, tasks, busy,
                      appended, append_order, joins, hub_msgs, server, rooms>>

\* app_socketio.handle_legacy_spell and handle_clear_world:
\* world_id = client_worlds.get(client_id) and the checks
sio_room_event_start(h) ==
    LET hd == handlers[h]
        world_id == client_worlds[hd.conn]
    IN /\ At(h, "request_spell", "start") \/ At(h, "clear_world", "start")
       /\ IF world_id = NULL
            THEN /\ Return(h)
                 /\ recv' = Send(recv, hd.conn,
                                 Msg(IF hd.kind = "request_spell" THEN "spell_rejected" ELSE "error", "", <<>>))
            ELSE IF hd.kind = "request_spell" /\ hd.spell_type \notin {"create_land", "dig"}
                   THEN Return(h) /\ recv' = Send(recv, hd.conn, Msg("spell_rejected", "", <<>>))
                   ELSE SetHandler(h, [pc |-> "store", world_id |-> world_id]) /\ UNCHANGED recv
       /\ UNCHANGED <<conn_state, connected_clients, client_worlds, player_count, world_ops,
                      next_op_id, tasks, busy, appended, append_order, joins, hub_msgs, server, rooms>>

\* app_socketio.handle_legacy_spell: add_world_op(world_id, op['op'], {...})
sio_spell_add_op(h) ==
    LET hd == handlers[h]
        op == CompileOp(hd.spell_type, hd.center)
    IN /\ At(h, "request_spell", "store")
       /\ world_ops' = add_world_op(world_ops, next_op_id, hd.world_id, op.op, OpData(op))
       /\ next_op_id' = next_op_id + 1
       /\ appended' = [appended EXCEPT ![hd.world_id] = Append(@, op)]
       /\ append_order' = Append(append_order, op.center)
       /\ SetHandler(h, [pc |-> "emit"])
       /\ UNCHANGED <<conn_state, connected_clients, client_worlds, player_count, recv, tasks,
                      busy, joins, hub_msgs, server, rooms>>

\* app_socketio.handle_clear_world: clear_world_ops(world_id)
sio_clear_ops(h) ==
    LET hd == handlers[h]
    IN /\ At(h, "clear_world", "store")
       /\ world_ops' = clear_world_ops(world_ops, hd.world_id)
       /\ appended' = [appended EXCEPT ![hd.world_id] = <<>>]
       /\ SetHandler(h, [pc |-> "emit"])
       /\ UNCHANGED <<conn_state, connected_clients, client_worlds, player_count, next_op_id,
                      recv, tasks, busy, append_order, joins, hub_msgs, server, rooms>>

\* socketio.emit('apply_op', {'op': op}, room=world_id) and
\* socketio.emit('world_cleared', {...}, room=world_id)
sio_room_emit(h) ==
    LET hd == handlers[h]
        msg == IF hd.kind = "request_spell"
                 THEN Msg("apply_op", hd.world_id, <<CompileOp(hd.spell_type, hd.center)>>)
                 ELSE Msg("world_cleared", hd.world_id, <<>>)
    IN /\ At(h, "request_spell", "emit") \/ At(h, "clear_world", "emit")
       /\ recv' = EmitRoom(recv, hd.world_id, msg)
       /\ Return(h)
       /\ UNCHANGED <<conn_state, connected_clients, client_worlds, player_count, world_ops,
                      next_op_id, tasks, busy, appended, append_order, joins, hub_msgs, server, rooms>>

SioEvents ==
    {[kind |-> "world.join", world_id |-> w, spell_type |-> ""] : w \in JoinInputs}
    \cup {[kind |-> "world.leave", world_id |-> "", spell_type |-> ""],
          [kind |-> "clear_world", world_id |-> "", spell_type |-> ""]}
    \cup {[kind |-> "request_spell", world_id |-> "", spell_type |-> ty] : ty \in SpellTypes}

\* ============================================================================
\* spell.publish with clients connected: handle_publish of the asyncio hub
\* (ugc_backend/app.py) and POST /api/spells/<id>/publish of the control plane
\* (server_python/app.py).
\* ============================================================================
\* read_manifest(spell_id, revision_id): the manifest, None when there is none
read_manifest(files, s, rid) ==
    IF manifest_exists(files, s, rid) THEN files[<<s, rid, "manifest.json">>] ELSE NULL

SpellMsg(type, s, rid, channel, manifest) ==
    [type |-> type, spell_id |-> s, revision_id |-> rid, channel |-> channel,
     manifest |-> manifest]

\* broadcast(message): one send task per connected client
broadcast(c, msg) ==
    IF connected_clients = {} THEN tasks
    ELSE Append(tasks, [msg |-> msg, to |-> connected_clients, owner |-> c])

PublishAccepted(s, rid, channel) ==
    s # "" /\ rid # NoRev /\ channel \in Channels /\ revision_exists(rev_dirs, s, rid)

\* handle_publish (ugc_backend/app.py), up to the gather of the first broadcast
hub_handle_publish(c, s, rid, channel) ==
    /\ CanHandle(c)
    /\ hub_msgs' = hub_msgs + 1
    /\ handle_publish(s, rid, channel)
    /\ IF PublishAccepted(s, rid, channel)
         THEN LET manifest == read_manifest(rev_files, s, rid)
              IN /\ tasks' = broadcast(c, SpellMsg("spell.active_update", s, rid, channel,
                                                   manifest))
                 /\ busy' = [busy EXCEPT ![c] =
                                [kind |-> "revision_ready", world_id |-> "",
                                 msg |-> SpellMsg("spell.revision_ready", s, rid, "", manifest)]]
                 /\ UNCHANGED recv
         ELSE /\ recv' = Send(recv, c, [type |-> "error"])
              /\ UNCHANGED <<tasks, busy>>
    /\ UNCHANGED <<conn_state, connected_clients, client_worlds, player_count, world_ops,
                   next_op_id, appended, append_order, joins>>

\* handle_publish (ugc_backend/app.py): the second broadcast, after the gather
\* of the first has returned
hub_publish_revision_ready(c) ==
    /\ busy[c].kind = "revision_ready"
    /\ \A i \in DOMAIN tasks : tasks[i].owner # c
    /\ tasks' = broadcast(c, busy[c].msg)
    /\ busy' = [busy EXCEPT ![c] = NoCont]
    /\ UNCHANGED <<conn_state, connected_clients, client_worlds, player_count, world_ops,
                   next_op_id, recv, appended, append_order, joins, hub_msgs>>

\* api_publish_spell (server_python/app.py): the channel is not validated,
\* update_spell_active_revision ignores a channel that names no column
api_publish_spell(session_token, s, rid, channel) ==
    LET session == validate_session(active_sessions, session_token)
    IN /\ active_sessions' = session.sessions
       /\ validated' = [token |-> session.token, result |-> session.result,
                        expired |-> session.expired]
       /\ evicted' = IF session.expired THEN evicted \cup {session.token} ELSE evicted
       /\ IF session.result = NoSession
            THEN UNCHANGED build_vars
            ELSE handle_publish(s, rid, channel)
       /\ UNCHANGED <<now, issued, world_rows>>

\* ============================================================================
\* The op log by itself (ugc_backend/database.py): the appends and clears that
\* the hubs make for clients in several worlds, without the connections.
\* ============================================================================
ops_frame == UNCHANGED <<conn_state, connected_clients, client_worlds, player_count, recv,
                         tasks, busy, joins, hub_msgs, server, rooms, handlers>>

\* add_world_op(world_id, op_type, op_data), called for a spell cast in world_id
log_add_world_op(world_id, spell_type) ==
    LET op == CompileOp(spell_type, next_op_id)
    IN /\ next_op_id <= MaxOps
       /\ world_ops' = add_world_op(world_ops, next_op_id, world_id, op.op, OpData(op))
       /\ next_op_id' = next_op_id + 1
       /\ appended' = [appended EXCEPT ![world_id] = Append(@, op)]
       /\ append_order' = Append(append_order, op.center)
       /\ ops_frame

\* clear_world_ops(world_id)
log_clear_world_ops(world_id) ==
    /\ world_ops' = clear_world_ops(world_ops, world_id)
    /\ appended' = [appended EXCEPT ![world_id] = <<>>]
    /\ UNCHANGED <<next_op_id, append_order>>
    /\ ops_frame

NextOps ==
    \/ \E w \in Worlds, ty \in {"create_land", "dig"} :
           log_add_world_op(w, ty) /\ UNCHANGED <<build_vars, sup_vars, life_vars, cp_vars, store_vars>>
    \/ \E w \in Worlds : log_clear_world_ops(w) /\ UNCHANGED <<build_vars, sup_vars, life_vars, cp_vars, store_vars>>

\* ============================================================================
\* DELETE /world/<world_id> (server_python/app.py) beside joins of the same
\* worlds and beside the hub that appends ops to the same database.
\* ============================================================================
\* POST /join with a world_id: 404 unless the world exists
join_existing(t, w) ==
    /\ world_exists(world_rows, w)
    /\ join(t, w)

\* delete_world_endpoint: the request thread calls stop_game_server(world_id)
delete_world_endpoint(t, w) ==
    /\ sup_threads[t].op = "idle"
    /\ calls < MaxCalls
    /\ SetThread(t, [op |-> "delete", pc |-> "pop", world_id |-> w])
    /\ calls' = calls + 1
    /\ UNCHANGED <<running_servers, procs, returned>>

\* delete_world_endpoint: delete_world(world_id), after stop_game_server returned
delete_world(t) ==
    LET th == sup_threads[t]
    IN /\ th.op = "delete"
       /\ th.pc = "done"
       /\ world_ops' = clear_world_ops(world_ops, th.world_id)
       /\ appended' = [appended EXCEPT ![th.world_id] = <<>>]
       /\ world_rows' = world_rows \ {th.world_id}
       /\ SetThread(t, [op |-> "deleted"])

\* The ops the database holds when the control plane starts to take requests:
\* the control plane itself appends none.
stored_op(w) ==
    /\ calls = 0
    /\ log_add_world_op(w, "create_land")

delete_frame == UNCHANGED <<conn_state, connected_clients, client_worlds, player_count,
                            next_op_id, recv, tasks, busy, append_order, joins, hub_msgs,
                            server, rooms, handlers, active_sessions, now, issued, validated,
                            evicted, running_servers, procs, returned, calls>>

SupStep(t) ==
    \/ get_or_start_check(t)
    \/ start_find_port(t)
    \/ start_popen(t)
    \/ start_popen_raises(t)
    \/ start_wait_ready(t)
    \/ start_probe_connects(t)
    \/ start_probe_gives_up(t)
    \/ get_or_start_register(t)
    \/ stop_pop(t)
    \/ stop_terminate(t)
    \/ stop_wait_exits(t)
    \/ stop_wait_timeout(t)
    \/ stop_kill(t)
    \/ request_returns(t)

NextDelete ==
    \/ \E t \in Threads, w \in Worlds : join_existing(t, w) /\ UNCHANGED <<build_vars, hub_vars, life_vars, cp_vars, store_vars>>
    \/ \E t \in Threads, w \in Worlds : delete_world_endpoint(t, w) /\ UNCHANGED <<build_vars, hub_vars, life_vars, cp_vars, store_vars>>
    \/ \E t \in Threads : SupStep(t) /\ UNCHANGED <<build_vars, hub_vars, life_vars, cp_vars, store_vars>>
    \/ \E t \in Threads : delete_world(t) /\ delete_frame /\ UNCHANGED <<build_vars, life_vars, store_vars>>
    \/ \E i \in DOMAIN procs : proc_listens(i) /\ UNCHANGED <<build_vars, hub_vars, life_vars, cp_vars, store_vars>>
    \/ \E i \in DOMAIN procs : proc_exits(i) /\ UNCHANGED <<build_vars, hub_vars, life_vars, cp_vars, store_vars>>
    \/ \E w \in Worlds : stored_op(w) /\ UNCHANGED <<build_vars, sup_vars, life_vars, cp_vars, store_vars>>

InitSio == InitBuild /\ InitSup /\ InitHub /\ server \in {"sio", "cp"} /\ rooms = {}
           /\ handlers = [h \in Handlers |-> NoHandler]

NextSio ==
    \/ \E c \in Conns : sio_handle_connect(c) /\ UNCHANGED <<build_vars, sup_vars, life_vars, cp_vars, store_vars>>
    \/ \E c \in Conns, e \in SioEvents : sio_event(c, e.kind, e.world_id, e.spell_type) /\ UNCHANGED <<build_vars, sup_vars, life_vars, cp_vars, store_vars>>
    \/ \E h \in Handlers : sio_join_start(h) /\ UNCHANGED <<build_vars, sup_vars, life_vars, cp_vars, store_vars>>
    \/ \E h \in Handlers : sio_join_leave_old(h) /\ UNCHANGED <<build_vars, sup_vars, life_vars, cp_vars, store_vars>>
    \/ \E h \in Handlers : sio_join_room(h) /\ UNCHANGED <<build_vars, sup_vars, life_vars, cp_vars, store_vars>>
    \/ \E h \in Handlers : sio_join_set_world(h) /\ UNCHANGED <<build_vars, sup_vars, life_vars, cp_vars, store_vars>>
    \/ \E h \in Handlers : sio_join_count(h) /\ UNCHANGED <<build_vars, sup_vars, life_vars, cp_vars, store_vars>>
    \/ \E h \in Handlers : sio_join_sync(h) /\ UNCHANGED <<build_vars, sup_vars, life_vars, cp_vars, store_vars>>
    \/ \E h \in Handlers : sio_leave_pop(h) /\ UNCHANGED <<build_vars, sup_vars, life_vars, cp_vars, store_vars>>
    \/ \E h \in Handlers : sio_leave_room(h) /\ UNCHANGED <<build_vars, sup_vars, life_vars, cp_vars, store_vars>>
    \/ \E c \in Conns : sio_peer_closes(c) /\ UNCHANGED <<build_vars, sup_vars, life_vars, cp_vars, store_vars>>
    \/ \E h \in Handlers : sio_disconnect_discard(h) /\ UNCHANGED <<build_vars, sup_vars, life_vars, cp_vars, store_vars>>
    \/ \E h \in Handlers : sio_room_event_start(h) /\ UNCHANGED <<build_vars, sup_vars, life_vars, cp_vars, store_vars>>
    \/ \E h \in Handlers : sio_spell_add_op(h) /\ UNCHANGED <<build_vars, sup_vars, life_vars, cp_vars, store_vars>>
    \/ \E h \in Handlers : sio_clear_ops(h) /\ UNCHANGED <<build_vars, sup_vars, life_vars, cp_vars, store_vars>>
    \/ \E h \in Handlers : sio_room_emit(h) /\ UNCHANGED <<build_vars, sup_vars, life_vars, cp_vars, store_vars>>

\* The membership messages alone (connect, world.join, world.leave, close), on
\* the asyncio hub (server = "app") and on the control plane of server_python
\* (server = "cp").  Spell and clear messages touch neither client_worlds nor
\* the rooms nor player_count.
RoomEvents == {e \in SioEvents : e.kind \in {"world.join", "world.leave"}}

InitRooms == InitBuild /\ InitSup /\ InitHub /\ server \in {"app", "cp"} /\ rooms = {}
             /\ handlers = [h \in Handlers |-> NoHandler]

NextRooms ==
    \/ \E c \in Conns : server = "app" /\ handle_client_connect(c) /\ UNCHANGED <<build_vars, sup_vars, sio_vars, life_vars, cp_vars, store_vars>>
    \/ \E c \in Conns, w \in JoinInputs : server = "app" /\ handle_join_world(c, w) /\ UNCHANGED <<build_vars, sup_vars, sio_vars, life_vars, cp_vars, store_vars>>
    \/ \E c \in Conns : server = "app" /\ handle_join_world_sync(c) /\ UNCHANGED <<build_vars, sup_vars, sio_vars, life_vars, cp_vars, store_vars>>
    \/ \E c \in Conns : server = "app" /\ handle_leave_world(c) /\ UNCHANGED <<build_vars, sup_vars, sio_vars, life_vars, cp_vars, store_vars>>
    \/ \E c \in Conns : server = "app" /\ peer_closes(c) /\ UNCHANGED <<build_vars, sup_vars, sio_vars, life_vars, cp_vars, store_vars>>
    \/ \E c \in Conns : server = "app" /\ handle_client_finally(c) /\ UNCHANGED <<build_vars, sup_vars, sio_vars, life_vars, cp_vars, store_vars>>
    \/ \E c \in Conns : server # "app" /\ sio_handle_connect(c) /\ UNCHANGED <<build_vars, sup_vars, life_vars, cp_vars, store_vars>>
    \/ \E c \in Conns, e \in RoomEvents : server # "app" /\ sio_event(c, e.kind, e.world_id, e.spell_type) /\ UNCHANGED <<build_vars, sup_vars, life_vars, cp_vars, store_vars>>
    \/ \E h \in Handlers : sio_join_start(h) /\ UNCHANGED <<build_vars, sup_vars, life_vars, cp_vars, store_vars>>
    \/ \E h \in Handlers : sio_join_leave_old(h) /\ UNCHANGED <<build_vars, sup_vars, life_vars, cp_vars, store_vars>>
    \/ \E h \in Handlers : sio_join_room(h) /\ UNCHANGED <<build_vars, sup_vars, life_vars, cp_vars, store_vars>>
    \/ \E h \in Handlers : sio_join_set_world(h) /\ UNCHANGED <<build_vars, sup_vars, life_vars, cp_vars, store_vars>>
    \/ \E h \in Handlers : sio_join_count(h) /\ UNCHANGED <<build_vars, sup_vars, life_vars, cp_vars, store_vars>>
    \/ \E h \in Handlers : sio_leave_pop(h) /\ UNCHANGED <<build_vars, sup_vars, life_vars, cp_vars, store_vars>>
    \/ \E h \in Handlers : sio_leave_room(h) /\ UNCHANGED <<build_vars, sup_vars, life_vars, cp_vars, store_vars>>
    \/ \E c \in Conns : server # "app" /\ sio_peer_closes(c) /\ UNCHANGED <<build_vars, sup_vars, life_vars, cp_vars, store_vars>>
    \/ \E h \in Handlers : sio_disconnect_discard(h) /\ UNCHANGED <<build_vars, sup_vars, life_vars, cp_vars, store_vars>>

Init == InitBuild /\ InitSup /\ InitHub /\ server = "app" /\ rooms = {}
        /\ handlers = [h \in Handlers |-> NoHandler]

SpecBuild == Init /\ [][NextBuild]_vars

SpecSup == Init /\ [][NextSup]_vars

SpecHub == Init /\ [][NextHub]_vars

SpecSio == InitSio /\ [][NextSio]_vars

SpecRooms == InitRooms /\ [][NextRooms]_vars

\* The build requests of the lifecycle model carry one script: the outcome of
\* the stages is drawn in thread_process_complete / thread_process_raises.
NextWorker ==
    \/ \E s \in SpellIds : handle_start_build(s, PyStr(ScriptWithOnCast)) /\ UNCHANGED <<sup_vars, hub_vars, life_vars, cp_vars, store_vars>>
    \/ worker_start /\ UNCHANGED <<sup_vars, hub_vars, cp_vars, store_vars>>
    \/ worker_stop /\ UNCHANGED <<sup_vars, hub_vars, cp_vars, store_vars>>
    \/ worker_stop_joined /\ UNCHANGED <<sup_vars, hub_vars, cp_vars, store_vars>>
    \/ worker_stop_join_timeout /\ UNCHANGED <<sup_vars, hub_vars, cp_vars, store_vars>>
    \/ \E t \in RunThreadIds : thread_while(t) /\ UNCHANGED <<sup_vars, hub_vars, cp_vars, store_vars>>
    \/ \E t \in RunThreadIds : thread_pop(t) /\ UNCHANGED <<sup_vars, hub_vars, cp_vars, store_vars>>
    \/ \E t \in RunThreadIds : thread_process_start(t) /\ UNCHANGED <<sup_vars, hub_vars, cp_vars, store_vars>>
    \/ \E t \in RunThreadIds : thread_process_complete(t) /\ UNCHANGED <<sup_vars, hub_vars, cp_vars, store_vars>>
    \/ \E t \in RunThreadIds : thread_process_raises(t) /\ UNCHANGED <<sup_vars, hub_vars, cp_vars, store_vars>>
    \/ \E t \in RunThreadIds : thread_except(t) /\ UNCHANGED <<sup_vars, hub_vars, cp_vars, store_vars>>

SpecWorker == Init /\ [][NextWorker]_vars

\* One step of the worker thread of the pipeline.
WorkerStep ==
    \/ run_loop_pop
    \/ emit_progress
    \/ process_job_start
    \/ stage_prepare_5
    \/ stage_prepare_15
    \/ stage_assemble_20
    \/ stage_assemble_30
    \/ stage_assemble_45
    \/ stage_assemble_55
    \/ stage_validate_60
    \/ stage_validate_75
    \/ stage_finalize_80
    \/ stage_finalize_90
    \/ stage_finalize_95
    \/ process_job_complete
    \/ run_loop_except

InitPublish == InitBuild /\ InitSup /\ InitHub /\ server \in {"app", "cp"} /\ rooms = {}
               /\ handlers = [h \in Handlers |-> NoHandler]

\* Builds, and publish requests while clients are connected: over the websocket
\* of the asyncio hub, over HTTP in the control plane.
NextPublish ==
    \/ \E s \in SpellIds, code \in {PyStr(ScriptWithOnCast), PyStr(ScriptWithoutOnCast)} :
           handle_start_build(s, code) /\ UNCHANGED <<sup_vars, hub_vars, life_vars, cp_vars, store_vars>>
    \/ WorkerStep /\ UNCHANGED <<sup_vars, hub_vars, life_vars, cp_vars, store_vars>>
    \/ \E c \in Conns : server = "app" /\ handle_client_connect(c) /\ UNCHANGED <<build_vars, sup_vars, sio_vars, life_vars, cp_vars, store_vars>>
    \/ \E c \in Conns : server = "cp" /\ sio_handle_connect(c) /\ UNCHANGED <<build_vars, sup_vars, life_vars, cp_vars, store_vars>>
    \/ \E c \in Conns, s \in SpellIds, rid \in KnownRevisionIds, ch \in Channels :
           server = "app" /\ hub_handle_publish(c, s, rid, ch) /\ UNCHANGED <<sup_vars, sio_vars, life_vars, cp_vars, store_vars>>
    \/ \E c \in Conns : hub_publish_revision_ready(c) /\ UNCHANGED <<build_vars, sup_vars, sio_vars, life_vars, cp_vars, store_vars>>
    \/ \E c \in Conns : send_task_runs(c) /\ UNCHANGED <<build_vars, sup_vars, sio_vars, life_vars, cp_vars, store_vars>>
    \/ server = "cp" /\ create_session /\ UNCHANGED <<build_vars, sup_vars, hub_vars, life_vars, store_vars>>
    \/ \E tok \in Tokens \cup {UnknownToken}, s \in SpellIds, rid \in KnownRevisionIds, ch \in Channels :
           server = "cp" /\ api_publish_spell(tok, s, rid, ch) /\ UNCHANGED <<sup_vars, hub_vars, life_vars, store_vars>>

SpecPublish == InitPublish /\ [][NextPublish]_vars

SpecSession == Init /\ [][NextSession]_vars

SpecDelete == Init /\ [][NextDelete]_vars

SpecOps == Init /\ [][NextOps]_vars

SpecStore == Init /\ [][NextStore]_vars

InitPorts == InitBuild /\ LoadedSup /\ InitHub /\ server = "cp" /\ rooms = {}
             /\ handlers = [h \in Handlers |-> NoHandler]

SpecPorts == InitPorts /\ [][NextPorts]_vars

SpecLaunch == Init /\ [][NextLaunch]_vars

\* The spells table when the hub starts: fireball has been created, with or
\* without an active beta revision; shield has not.
SpellsAtStart(rev) ==
    [s \in SpellIds |-> [exists |-> s = "fireball", draft |-> NoRev,
                         beta |-> IF s = "fireball" THEN rev ELSE NoRev, stable |-> NoRev]]

\* InitBuild with the spells table filled.
InitSpells ==
    /\ \E rev \in {NoRev, [ver |-> 2, uid |-> 2]} : spells = SpellsAtStart(rev)
    /\ revisions = <<>>
    /\ jobs = <<>>
    /\ job_queue = <<>>
    /\ rev_dirs = {}
    /\ rev_files = [k \in {} |-> 0]
    /\ worker = WorkerIdle
    /\ events = <<>>
    /\ requests = <<>>
    /\ raised = {}
    /\ publishes = 0
    /\ InitLife
    /\ InitSup /\ InitHub /\ server \in {"app", "sio"} /\ rooms = {}
    /\ handlers = [h \in Handlers |-> NoHandler]

\* The spell messages beside the membership messages: the asyncio hub with
\* spell.cast_request, and app_socketio with world.join and request_spell.
SpellEvents == {e \in SioEvents : e.kind \in {"world.join", "request_spell"}}

NextSpells ==
    \/ \E c \in Conns : server = "app" /\ handle_client_connect(c) /\ UNCHANGED <<build_vars, sup_vars, sio_vars, life_vars, cp_vars, store_vars>>
    \/ \E c \in Conns, w \in JoinInputs : server = "app" /\ handle_join_world(c, w) /\ UNCHANGED <<build_vars, sup_vars, sio_vars, life_vars, cp_vars, store_vars>>
    \/ \E c \in Conns : handle_join_world_sync(c) /\ UNCHANGED <<build_vars, sup_vars, sio_vars, life_vars, cp_vars, store_vars>>
    \/ \E c \in Conns : server = "app" /\ handle_leave_world(c) /\ UNCHANGED <<build_vars, sup_vars, sio_vars, life_vars, cp_vars, store_vars>>
    \/ \E c \in Conns, ty \in SpellTypes : server = "app" /\ handle_legacy_spell(c, ty) /\ UNCHANGED <<build_vars, sup_vars, sio_vars, life_vars, cp_vars, store_vars>>
    \/ \E c \in Conns, i \in CastInputs : server = "app" /\ handle_cast_request(c, i.spell_id, i.revision_id) /\ UNCHANGED <<build_vars, sup_vars, sio_vars, life_vars, cp_vars, store_vars>>
    \/ \E c \in Conns : server = "app" /\ handle_clear_world(c) /\ UNCHANGED <<build_vars, sup_vars, sio_vars, life_vars, cp_vars, store_vars>>
    \/ \E c \in Conns : send_task_runs(c) /\ UNCHANGED <<build_vars, sup_vars, sio_vars, life_vars, cp_vars, store_vars>>
    \/ \E c \in Conns : server = "app" /\ peer_closes(c) /\ UNCHANGED <<build_vars, sup_vars, sio_vars, life_vars, cp_vars, store_vars>>
    \/ \E c \in Conns : server = "app" /\ handle_client_finally(c) /\ UNCHANGED <<build_vars, sup_vars, sio_vars, life_vars, cp_vars, store_vars>>
    \/ \E c \in Conns : server = "sio" /\ sio_handle_connect(c) /\ UNCHANGED <<build_vars, sup_vars, life_vars, cp_vars, store_vars>>
    \/ \E c \in Conns, e \in SpellEvents : server = "sio" /\ sio_event(c, e.kind, e.world_id, e.spell_type) /\ UNCHANGED <<build_vars, sup_vars, life_vars, cp_vars, store_vars>>
    \/ \E h \in Handlers : sio_join_start(h) /\ UNCHANGED <<build_vars, sup_vars, life_vars, cp_vars, store_vars>>
    \/ \E h \in Handlers : sio_join_leave_old(h) /\ UNCHANGED <<build_vars, sup_vars, life_vars, cp_vars, store_vars>>
    \/ \E h \in Handlers : sio_join_room(h) /\ UNCHANGED <<build_vars, sup_vars, life_vars, cp_vars, store_vars>>
    \/ \E h \in Handlers : sio_join_set_world(h) /\ UNCHANGED <<build_vars, sup_vars, life_vars, cp_vars, store_vars>>
    \/ \E h \in Handlers : sio_join_count(h) /\ UNCHANGED <<build_vars, sup_vars, life_vars, cp_vars, store_vars>>
    \/ \E h \in Handlers : sio_join_sync(h) /\ UNCHANGED <<build_vars, sup_vars, life_vars, cp_vars, store_vars>>
    \/ \E h \in Handlers : sio_room_event_start(h) /\ UNCHANGED <<build_vars, sup_vars, life_vars, cp_vars, store_vars>>
    \/ \E h \in Handlers : sio_spell_add_op(h) /\ UNCHANGED <<build_vars, sup_vars, life_vars, cp_vars, store_vars>>
    \/ \E h \in Handlers : sio_room_emit(h) /\ UNCHANGED <<build_vars, sup_vars, life_vars, cp_vars, store_vars>>

SpecSpells == InitSpells /\ [][NextSpells]_vars

\* The memberships of SpecRooms beside DELETE /world/<world_id> of the control
\* plane, which works on the same worlds table.
\* One request thread takes the DELETE requests.
Deleter == CHOOSE t \in Threads : TRUE

NextCount ==
    \/ NextRooms
    \/ \E w \in Worlds : delete_world_endpoint(Deleter, w) /\ UNCHANGED <<build_vars, hub_vars, life_vars, cp_vars, store_vars>>
    \/ stop_pop(Deleter) /\ UNCHANGED <<build_vars, hub_vars, life_vars, cp_vars, store_vars>>
    \/ delete_world(Deleter) /\ delete_frame /\ UNCHANGED <<build_vars, life_vars, store_vars>>

SpecCount == InitRooms /\ [][NextCount]_vars

\* The hub some time after its start: one connection has connected and joined
\* a world whose log was empty, and has its world.joined and sync_complete.
InitJoined ==
    /\ spells = SpellsAtStart([ver |-> 2, uid |-> 2])
    /\ revisions = <<>>
    /\ jobs = <<>>
    /\ job_queue = <<>>
    /\ rev_dirs = {}
    /\ rev_files = [k \in {} |-> 0]
    /\ worker = WorkerIdle
    /\ events = <<>>
    /\ requests = <<>>
    /\ raised = {}
    /\ publishes = 0
    /\ InitLife
    /\ InitSup
    /\ server \in {"app", "sio"}
    /\ handlers = [h \in Handlers |-> NoHandler]
    /\ LET c == CHOOSE k \in Conns : TRUE
           w == CHOOSE v \in Worlds : TRUE
       IN
           /\ conn_state = [k \in Conns |-> IF k = c THEN "open" ELSE "new"]
           /\ connected_clients = {c}
           /\ client_worlds = [k \in Conns |-> IF k = c THEN w ELSE NULL]
           /\ player_count = [v \in Worlds |-> IF v = w THEN 1 ELSE 0]
           /\ rooms = IF server = "app" THEN {} ELSE {<<c, w>>}
           /\ recv = [k \in Conns |-> IF k = c THEN <<Msg("world.joined", w, <<>>),
                                                       Msg("sync_complete", w, <<>>)>>
                                      ELSE <<>>]
    /\ world_ops = {}
    /\ next_op_id = 1
    /\ tasks = <<>>
    /\ busy = [c \in Conns |-> NoCont]
    /\ appended = [w \in Worlds |-> <<>>]
    /\ append_order = <<>>
    /\ joins = <<>>
    /\ hub_msgs = 0

SpecJoined == InitJoined /\ [][NextSpells]_vars

\* The operating system schedules every thread that can run, and a join that
\* can return does return.
FairWorker ==
    /\ \A t \in RunThreadIds : WF_vars(ThreadStep(t) /\ UNCHANGED <<sup_vars, hub_vars, cp_vars, store_vars>>)
    /\ WF_vars((worker_stop_joined \/ worker_stop_join_timeout) /\ UNCHANGED <<sup_vars, hub_vars, cp_vars, store_vars>>)

SpecWorkerFair == SpecWorker /\ FairWorker

\* ------------------------------------------------- properties of the pipeline
JobEvents(j) == SelectSeq(events, LAMBDA e : e.job_id = j)

SpellRevisions(s) == SelectSeq(revisions, LAMBDA r : r.spell_id = s)

Queued(j) == \E i \in DOMAIN job_queue : job_queue[i].job_id = j

\* The worker is between the pop of job j and the last event it emits for it.
InProgress(j) == worker.job_id = j /\ (worker.pc # "loop" \/ worker.emit # <<>>)

Finished(j) == j \in DOMAIN jobs /\ ~Queued(j) /\ ~InProgress(j)

NonDecreasing(es) == \A i \in 1..(Len(es) - 1) : es[i].pct <= es[i + 1].pct

LastIs(es, e) == es # <<>> /\ Last(es) = e

\* C6: for each spell, the versions of its revisions, in creation order, go up by
\* exactly one from each revision to the next, and no two revisions of the spell
\* have the same version.
C6_VersionsConsecutive ==
    \A s \in SpellIds :
        LET rs == SpellRevisions(s)
        IN /\ \A i \in 2..Len(rs) : rs[i].version = rs[i - 1].version + 1
           /\ \A i, k \in DOMAIN rs : i # k => rs[i].version # rs[k].version

\* Two build jobs of one spell have both created their revision.
C6_Witness == \E s \in SpellIds : Len(SpellRevisions(s)) >= 2

\* C7 as claimed: the pct values of all job.progress events of a job are
\* non-decreasing, a successful job's last event has pct 100, and nothing is
\* emitted for the job after its failure event.
C7_AllEventsNonDecreasing ==
    \A j \in DOMAIN jobs :
        LET es == JobEvents(j)
        IN /\ NonDecreasing(es)
           /\ (Finished(j) /\ jobs[j].status = "completed") => LastIs(es, Event(j, "done", 100))
           /\ \A i \in DOMAIN es : es[i].stage = "error" => i = Len(es)

\* C7 as amended: the pct values of the events emitted before the failure event
\* are non-decreasing; the failure event carries pct 0 and is the last event of
\* its job; a successful job's last event is the "done" event with pct 100.
C7_ProgressNonDecreasing ==
    \A j \in DOMAIN jobs :
        LET es == JobEvents(j)
        IN /\ NonDecreasing(SelectSeq(es, LAMBDA e : e.stage # "error"))
           /\ (Finished(j) /\ jobs[j].status = "completed") => LastIs(es, Event(j, "done", 100))
           /\ \A i \in DOMAIN es : es[i].stage = "error" => (i = Len(es) /\ es[i].pct = 0)

\* One job has completed and another has failed after its validate checkpoint.
C7_Witness ==
    \E j, k \in DOMAIN jobs :
        /\ Finished(j) /\ jobs[j].status = "completed"
        /\ Finished(k) /\ jobs[k].status = "failed" /\ Len(JobEvents(k)) >= 9

\* STAGES, followed by the stage of the completion event.
StageRank(stage) ==
    CASE stage = "prepare" -> 1
      [] stage = "assemble_package" -> 2
      [] stage = "validate" -> 3
      [] stage = "finalize" -> 4
      [] stage = "done" -> 5
      [] OTHER -> 0

\* The pct values of the events of one stage, in order of emission.
StagePcts(es, stage) ==
    LET ses == SelectSeq(es, LAMBDA e : e.stage = stage)
    IN [i \in DOMAIN ses |-> ses[i].pct]

FromUpTo(pcts, first, last) ==
    /\ pcts # <<>> /\ pcts[1] = first /\ pcts[Len(pcts)] = last
    /\ \A i \in 1..(Len(pcts) - 1) : pcts[i] <= pcts[i + 1]

\* The events of a completed job: the five stages in order, each one run of
\* events, none missing, with the checkpoints of each.
CompletedJobStages(j, prepare_pcts) ==
    LET es == JobEvents(j)
    IN /\ \A i, k \in DOMAIN es : i < k => StageRank(es[i].stage) <= StageRank(es[k].stage)
       /\ {StageRank(es[i].stage) : i \in DOMAIN es} = 1..5
       /\ StagePcts(es, "prepare") = prepare_pcts
       /\ FromUpTo(StagePcts(es, "assemble_package"), 20, 55)
       /\ StagePcts(es, "validate") = <<60, 75>>
       /\ FromUpTo(StagePcts(es, "finalize"), 80, 95)
       /\ StagePcts(es, "done") = <<100>>

Completed(j) == Finished(j) /\ jobs[j].status = "completed"

\* A progress event is emitted with the stage and pct the job record holds.
C18_Step ==
    events' # events =>
        LET e == events'[Len(events')]
        IN e.stage # "error" =>
               /\ jobs[e.job_id].stage = e.stage
               /\ jobs[e.job_id].progress_pct = e.pct

\* C18 as claimed: a completed job has gone through prepare, assemble_package,
\* validate, finalize, done in this order, each once, with the checkpoints
\* prepare 5 then 15, assemble_package 20 up to 55, validate 60 then 75,
\* finalize 80 up to 95, done 100; every checkpoint is in the job record when
\* its event is emitted.
C18_StagesAsClaimed ==
    [](\A j \in DOMAIN jobs : Completed(j) => CompletedJobStages(j, <<5, 15>>))
    /\ [][C18_Step]_vars

\* C18 as amended: the same, with the checkpoints of prepare being 0, 5, 15:
\* _process_job enters prepare at 0 before _stage_prepare writes 5.
C18_StagesInOrder ==
    [](\A j \in DOMAIN jobs : Completed(j) => CompletedJobStages(j, <<0, 5, 15>>))
    /\ [][C18_Step]_vars

\* A job has completed and all thirteen of its events are out.
C18_Witness == \E j \in DOMAIN jobs : Completed(j) /\ Len(JobEvents(j)) = 13

\* The request supplied a script and the script has no on_cast function.
LacksOnCast(code) == ~code.none /\ ~HasFunc(code.text, "on_cast")

C8_State ==
    \A j \in DOMAIN jobs :
        LacksOnCast(requests[j].code) =>
            /\ jobs[j].status # "completed"
            /\ Finished(j) => /\ jobs[j].status = "failed"
                              /\ LastIs(JobEvents(j), Event(j, "error", 0))
            /\ \A i \in DOMAIN revisions : revisions[i].revision_id.uid # j

C8_Step ==
    (/\ worker.job_id \in DOMAIN jobs
     /\ InProgress(worker.job_id)
     /\ LacksOnCast(requests[worker.job_id].code)
     /\ worker' # worker) => (spells' = spells /\ revisions' = revisions)

\* C8: a job whose supplied script has no on_cast function never completes; once
\* the worker is done with it its status is failed and its last event is
\* (error, 0); no Revision record is created for it; and no step the worker takes
\* for it changes a channel pointer.
C8_MissingOnCastFails == []C8_State /\ [][C8_Step]_vars

\* A job with a script that lacks on_cast has run to its end.
C8_Witness ==
    \E j \in DOMAIN jobs :
        /\ requests[j].code = PyStr(ScriptWithoutOnCast)
        /\ Finished(j)
        /\ rev_dirs # {}

\* C9: a job the worker is done with is completed or failed, never running or
\* pending; and a job in which a stage raised is failed, has its error_message
\* recorded, and its last event is the error event.
C9_RaisedJobFails ==
    \A j \in DOMAIN jobs :
        /\ Finished(j) => jobs[j].status \in {"completed", "failed"}
        /\ (j \in raised /\ Finished(j)) =>
               /\ jobs[j].status = "failed"
               /\ jobs[j].error_message # NULL
               /\ LastIs(JobEvents(j), Event(j, "error", 0))

\* A stage raised in a job and the worker is done with that job.
C9_Witness == \E j \in raised : Finished(j)

\* A revision that was finalized: it has a Revision record and a manifest.
Finalized(s, rid) ==
    /\ \E i \in DOMAIN revisions :
           revisions[i].revision_id = rid /\ revisions[i].spell_id = s
    /\ manifest_exists(rev_files, s, rid)

\* C10: every non-null channel pointer of every spell refers to a finalized
\* revision.
C10_PointersFinalized ==
    \A s \in SpellIds, ch \in Channels :
        spells[s][ch] # NoRev => Finalized(s, spells[s][ch])

\* ----------------------------------------------- properties of the supervisor
\* Thread t is between the cache lookup of get_or_start_game_server and the
\* registration of the server_info it built: the reclaim/probe/launch path.
InLaunch(t) == sup_threads[t].pc \in {"find_port", "popen", "wait_ready", "probe", "register"}

\* No process started for world w has exited or been stopped.
NoExit(w) == \A i \in DOMAIN procs : procs[i].world_id = w => procs[i].state # "exited"

\* Threads t and u are both inside get_or_start_game_server for one world, and
\* neither launch has failed.
ConcurrentGets(t, u) ==
    /\ t # u
    /\ sup_threads[t].op = "get" /\ sup_threads[u].op = "get"
    /\ sup_threads[t].world_id = sup_threads[u].world_id
    /\ ~sup_threads[t].failed /\ ~sup_threads[u].failed
    /\ NoExit(sup_threads[t].world_id)

\* C4: when two callers are inside get_or_start_game_server for the same world
\* at the same time (and no process of the world exits), they are never both in
\* the reclaim/probe/launch path, they do not both spawn a process, and the
\* handles they are about to return are the same handle, with the same port.
C4_SingleLaunch ==
    \A t, u \in Threads :
        ConcurrentGets(t, u) =>
            /\ ~(InLaunch(t) /\ InLaunch(u))
            /\ ~(sup_threads[t].process # 0 /\ sup_threads[u].process # 0)
            /\ (sup_threads[t].pc = "done" /\ sup_threads[u].pc = "done") =>
                   sup_threads[t].server_info = sup_threads[u].server_info

\* Every server_info that exists for world w: the cached one, the ones already
\* returned to callers, and the ones request threads are about to return.
HandlesOf(w) ==
    {h \in ({running_servers[w]} \cup returned
              \cup {sup_threads[t].server_info : t \in {x \in Threads : sup_threads[x].op = "get"}}) :
        h # NoHandle /\ h.world_id = w}

\* C5: for each world at most one server_info with a running process exists,
\* counting those already returned to callers as well as the cached one.
C5_OneLiveHandle ==
    \A w \in Worlds :
        Cardinality({h \in HandlesOf(w) : is_server_alive(procs, h)}) <= 1

\* A launch of thread t has just been reported as successful: the probe loop of
\* _start_game_server left through its break.
ProbeSucceeds(t) == sup_threads[t].pc = "probe" /\ sup_threads'[t].pc = "register"

\* Thread t is about to return from a get_or_start_game_server that failed.
LaunchFailed(t) ==
    sup_threads[t].op = "get" /\ sup_threads[t].pc = "done" /\ sup_threads[t].failed

C11_State ==
    \A t \in Threads :
        LaunchFailed(t) =>
            /\ sup_threads[t].server_info = NoHandle
            /\ \/ running_servers[sup_threads[t].world_id] = NoHandle
               \/ running_servers[sup_threads[t].world_id].process # sup_threads[t].process

C11_Step ==
    \A t \in Threads :
        ProbeSucceeds(t) => procs[sup_threads[t].process].state # "exited"

\* C11: a launch whose process has exited by the end of the readiness wait and
\* the probing is never reported as successful, and a get_or_start_game_server
\* whose launch failed returns no handle and has cached no handle of its process
\* for the world.
C11_FailedLaunchLeavesNoHandle == []C11_State /\ [][C11_Step]_vars

\* Thread t is inside a stop_game_server that found a cached handle.
Stopping(t) == sup_threads[t].op = "stop" /\ sup_threads[t].server_info # NoHandle

\* The signals stop_game_server may have sent to one process, in order.
StopSignals == {<<>>, <<"terminate">>, <<"terminate", "kill">>}

C12_State ==
    /\ \A t \in Threads :
           Stopping(t) => running_servers[sup_threads[t].world_id] # sup_threads[t].server_info
    /\ \A i \in DOMAIN procs : procs[i].signals \in StopSignals

C12_Step ==
    \A t \in Threads :
        /\ (sup_threads[t].pc # "kill" /\ sup_threads'[t].pc = "kill") =>
               /\ sup_threads[t].pc = "wait"
               /\ procs[sup_threads[t].server_info.process].state # "exited"
        /\ (Stopping(t) /\ procs'[sup_threads[t].server_info.process].signals
                              # procs[sup_threads[t].server_info.process].signals) =>
               \/ sup_threads[t].pc = "terminate"
               \/ sup_threads[t].pc = "kill"

\* C12: from the moment stop_game_server has taken the cached handle of a world,
\* running_servers no longer holds that handle, whether the process then exits
\* within the wait or is killed; a process is sent terminate first and kill
\* second at most, and kill is reached only from a wait that timed out with the
\* process still running.
C12_StopRemovesTerminatesKills == []C12_State /\ [][C12_Step]_vars

\* A stop_game_server has returned after its wait timed out and it killed the
\* process; the world has no cached handle.
C12_Witness ==
    \E t \in Threads :
        /\ Stopping(t) /\ sup_threads[t].pc = "done"
        /\ procs[sup_threads[t].server_info.process].signals = <<"terminate", "kill">>
        /\ running_servers[sup_threads[t].world_id] = NoHandle

\* ------------------------------------------------------ properties of the hub
\* The world rooms connection c is a member of: the worlds whose broadcasts
\* reach it.
RoomsOf(c) == {w \in Worlds : c \in connected_clients /\ client_worlds[c] = w}

\* C1: every connection is a member of at most one world room, and the stored
\* player_count of every world is >= 0.
C1_OneRoomCountNonNegative ==
    /\ \A c \in Conns : Cardinality(RoomsOf(c)) <= 1
    /\ \A w \in Worlds : player_count[w] >= 0

\* A connection has joined a world, switched to the other world, left it, and
\* disconnected.
C1_Witness ==
    \E c \in Conns :
        /\ conn_state[c] = "gone"
        /\ \E i, k \in DOMAIN joins :
               i < k /\ joins[i].conn = c /\ joins[k].conn = c /\ joins[i].world_id # joins[k].world_id
        /\ \E i \in DOMAIN recv[c] : recv[c][i].type = "world.left" /\ recv[c][i].world_id # ""

\* The Socket.IO rooms connection c is a member of.
SioRoomsOf(c) == {w \in Worlds : <<c, w>> \in rooms}

\* No event handler of the Socket.IO server is running.
Quiet == \A h \in Handlers : handlers[h] = NoHandler

\* C13: a connection is never a member of two rooms, so a join of room B by a
\* member of room A has taken it out of A before it is added to B; once the
\* handlers of all messages have returned (two concurrent world.join of one
\* connection included), the room of each connection is the one client_worlds
\* names and every world's player_count is the number of members of its room.
C13_JoinLeavesOldRoomFirst ==
    /\ \A c \in Conns : Cardinality(SioRoomsOf(c)) <= 1
    /\ Quiet =>
           /\ \A c \in Conns : client_worlds[c] # NULL => SioRoomsOf(c) = {client_worlds[c]}
           /\ \A w \in Worlds : player_count[w] = Cardinality({c \in Conns : <<c, w>> \in rooms})

\* The disconnect cleanup of connection c has run to its end.
Gone(c) == conn_state[c] = "gone"

\* C14: once the disconnect cleanup of a connection has run and no handler is
\* left running, the connection is in neither connected_clients nor
\* client_worlds; when that is so for every connection that ever connected,
\* every decrement has matched its increment and every player_count is 0.
C14_DisconnectCleansUp ==
    Quiet =>
        /\ \A c \in Conns : Gone(c) => c \notin connected_clients /\ client_worlds[c] = NULL
        /\ (\A c \in Conns : conn_state[c] \in {"new", "gone"}) =>
               \A w \in Worlds : player_count[w] = 0

\* The step is the world.leave handler of connection c reading client_worlds:
\* all of handle_leave_world in the asyncio hub, where the reply ends the
\* handler, and the pop of a handler thread in the Socket.IO servers.
LeaveStarts(c) ==
    \/ /\ server = "app"
       /\ Len(recv'[c]) = Len(recv[c]) + 1
       /\ recv'[c][Len(recv'[c])].type = "world.left"
    \/ \E h \in Handlers :
           /\ At(h, "world.leave", "start") /\ handlers[h].conn = c
           /\ handlers'[h] # handlers[h]

\* C15: a world.leave of a connection that client_worlds places in no world
\* changes neither client_worlds, nor the rooms, nor any player_count; and every
\* world.leave takes the connection out of client_worlds, so that a second
\* world.leave right after it is such a no-op.
C15_LeaveIdempotent ==
    [][\A c \in Conns :
           LeaveStarts(c) =>
               /\ client_worlds'[c] = NULL
               /\ client_worlds[c] = NULL => UNCHANGED <<client_worlds, rooms, player_count>>]_vars

\* A connection has left a world and then sent world.leave again: it has two
\* world.left replies, the first with the world it left, the second with none.
C15_Witness ==
    \E c \in Conns : \E i \in DOMAIN recv[c] :
        /\ i < Len(recv[c])
        /\ recv[c][i].type = "world.left" /\ recv[c][i].world_id # ""
        /\ recv[c][i + 1].type = "world.left" /\ recv[c][i + 1].world_id = ""
        /\ client_worlds[c] = NULL

\* The apply_op messages that exist: those waiting in a send task and those
\* handed to a connection.
ApplyOpMsgs ==
    {tasks[i].msg : i \in {k \in DOMAIN tasks : tasks[k].msg.type = "apply_op"}}
    \cup UNION {{recv[c][i] : i \in {k \in DOMAIN recv[c] : recv[c][k].type = "apply_op"}} : c \in Conns}

\* The connections in room w.
Members(w) == {k \in connected_clients : client_worlds[k] = w}

C16_State ==
    \A m \in ApplyOpMsgs : \E i \in DOMAIN append_order : append_order[i] = m.ops[1].center

C16_Step ==
    /\ append_order' # append_order =>
           LET t == tasks'[Len(tasks')]
               w == t.msg.world_id
           IN /\ Len(tasks') = Len(tasks) + 1
              /\ t.msg.type = "apply_op"
              /\ t.msg.ops[1].center = append_order'[Len(append_order')]
              /\ appended'[w] = Append(appended[w], t.msg.ops[1])
              /\ client_worlds[t.owner] = w
              /\ t.owner \in t.to
              /\ t.to = Members(w)
    /\ (tasks' # tasks /\ Len(tasks') <= Len(tasks)) =>
           \E c \in Head(tasks).to :
               /\ recv'[c] = Send(recv, c, Head(tasks).msg)[c]
               /\ tasks' = IF Head(tasks).to = {c} THEN Tail(tasks)
                           ELSE [tasks EXCEPT ![1].to = @ \ {c}]

\* C16: no apply_op message exists whose op is not in the log; the step that
\* appends an accepted op to the log of world W creates the apply_op send tasks
\* for exactly the connections in room W at that moment, the sender among them;
\* and a connection leaves the targets of a broadcast only by the message being
\* sent to it.
C16_AppendThenBroadcastToRoom == []C16_State /\ [][C16_Step]_vars

\* Two connections are in one world and both have received the apply_op of an
\* op one of them sent.
C16_Witness ==
    \E c, k \in Conns :
        /\ c # k
        /\ client_worlds[c] # NULL /\ client_worlds[c] = client_worlds[k]
        /\ \E i \in DOMAIN recv[c], j \in DOMAIN recv[k] :
               recv[c][i].type = "apply_op" /\ recv[k][j] = recv[c][i]

\* The step is the send task of a broadcast for connection c, and the send
\* fails because c is not open.
SendFails(c) ==
    /\ tasks # <<>>
    /\ c \in Head(tasks).to
    /\ conn_state[c] # "open"
    /\ tasks' # tasks /\ Len(tasks') <= Len(tasks)
    /\ \/ Head(tasks).to = {c}
       \/ c \notin tasks'[1].to

\* C17: when the send of a broadcast to one connection fails, every other
\* target of the broadcast still has its send ahead of it, the handler that
\* broadcasts is not ended (the sender's connection stays as it was), and
\* nothing but the failed send is dropped.
C17_FailedSendIsolated ==
    [][\A c \in Conns :
           SendFails(c) =>
               /\ tasks' = IF Head(tasks).to = {c} THEN Tail(tasks)
                           ELSE [tasks EXCEPT ![1].to = @ \ {c}]
               /\ conn_state' = conn_state
               /\ recv' = recv]_vars

\* Connection k closed while a member of a room, an op was broadcast to the
\* room afterwards, the send to k failed, and the sender c has received its
\* apply_op and is still open with its handler returned.
C17_Witness ==
    \E c, k \in Conns :
        /\ c # k /\ tasks = <<>>
        /\ conn_state[c] = "open" /\ HandlerIdle(c)
        /\ conn_state[k] = "closed" /\ k \in connected_clients
        /\ client_worlds[k] # NULL /\ client_worlds[k] = client_worlds[c]
        /\ recv[k] # <<>> /\ recv[k][Len(recv[k])].type = "sync_complete"
        /\ \E i \in DOMAIN recv[c] : recv[c][i].type = "apply_op"
                                        /\ recv[c][i].world_id = client_worlds[c]

\* Two ops are the same op: a material_id that is null is one that is absent.
SameOp(a, b) == a.op = b.op /\ a.center = b.center /\ DictGet(a.material_id) = DictGet(b.material_id)

SameOps(as, bs) == Len(as) = Len(bs) /\ \A i \in DOMAIN as : SameOp(as[i], bs[i])

SyncMsgs(reply) == SelectSeq(reply, LAMBDA m : m.type \in {"sync_ops", "sync_complete"})

\* C2: the reply to a join of a world whose log holds N ops carries one sync
\* message: sync_ops with exactly those N ops in append order when N > 0,
\* sync_complete when the log is empty.
C2_JoinReplaysLog ==
    \A i \in DOMAIN joins :
        LET sync == SyncMsgs(joins[i].reply)
        IN /\ Len(sync) = 1
           /\ IF joins[i].log = <<>>
                THEN sync[1].type = "sync_complete"
                ELSE sync[1].type = "sync_ops" /\ SameOps(sync[1].ops, joins[i].log)

\* The apply_op messages connection c has received, in order of receipt.
AppliedOps(c) == SelectSeq(recv[c], LAMBDA m : m.type = "apply_op")

\* The place of the op with this center in the order of appends.
AppendIndex(center) == CHOOSE i \in DOMAIN append_order : append_order[i] = center

\* C3: every connection receives the apply_op messages of the ops of one world
\* in the order in which the ops were appended to the world's log.
C3_ApplyOrderIsAppendOrder ==
    \A c \in Conns :
        LET ms == AppliedOps(c)
        IN \A i, k \in DOMAIN ms :
               (i < k /\ ms[i].world_id = ms[k].world_id) =>
                   AppendIndex(ms[i].ops[1].center) < AppendIndex(ms[k].ops[1].center)

\* ------------------------------------------- properties of the worker lifecycle
\* The threads that are at work on a job.
ProcessingThreads == {t \in RunThreadIds : Processing(t)}

\* C19: build jobs are started in the order in which they were enqueued (job i
\* is the i-th job enqueued), and at most one job is being processed at any
\* time, whatever the spells of the jobs and whatever start and stop calls
\* were made.
C19_OneJobAtATimeInOrder ==
    /\ Cardinality(ProcessingThreads) <= 1
    /\ \A i \in DOMAIN started : started[i] = i

JobIds == 1..MaxJobs

HasStatus(j, statuses) == j \in DOMAIN jobs /\ jobs[j].status \in statuses

Terminal(j) == HasStatus(j, {"completed", "failed"})

\* A thread at one of the given positions holds job j.
HeldBy(j, pcs) ==
    \E t \in DOMAIN run_threads : run_threads[t].job_id = j /\ run_threads[t].pc \in pcs

\* No job is dropped: a pending job is in the queue or with the thread that
\* popped it, and a running job is with a thread inside _process_job.
NotDropped ==
    \A j \in DOMAIN jobs :
        /\ HasStatus(j, {"pending"}) => Queued(j) \/ HeldBy(j, {"process"})
        /\ HasStatus(j, {"running"}) => HeldBy(j, {"run", "except"})

\* A step of stop(): the call (start() leaves _running True) or the return of
\* the join.
StopStep ==
    \/ lifecalls' # lifecalls /\ ~running'
    \/ stopper = "join" /\ stopper' = "idle"

\* C20: while the worker is running every enqueued job eventually reaches
\* status completed or failed: no job is dropped without a terminal status,
\* a job that has started does not stay in status running forever, and stop()
\* does not interrupt the job in progress.
C20_EnqueuedJobsFinish ==
    /\ []NotDropped
    /\ [][StopStep => run_threads' = run_threads /\ jobs' = jobs /\ job_queue' = job_queue]_vars
    /\ \A j \in JobIds : HasStatus(j, {"running"}) ~> Terminal(j)
    /\ \A j \in JobIds : (HasStatus(j, {"pending"}) /\ running) ~> (Terminal(j) \/ ~running)

\* A thread that stop() gave up joining has finished its job and is back at
\* the head of its loop, the worker stopped and the thread forgotten.
C20_Witness ==
    /\ ~running
    /\ stopper = "idle"
    /\ thread = 0
    /\ started # <<>>
    /\ Terminal(Last(started))
    /\ \E t \in DOMAIN run_threads : run_threads[t] = NewRunThread

\* ------------------------------------------------ properties of the job record
C21_State ==
    \A j \in DOMAIN jobs : jobs[j].progress_pct \in 0..100

C21_Step ==
    \A j \in DOMAIN jobs' :
        IF j \notin DOMAIN jobs
        THEN jobs'[j].status = "pending" /\ jobs'[j].progress_pct = 0
        ELSE /\ jobs'[j].progress_pct >= jobs[j].progress_pct
             /\ Terminal(j) => /\ jobs'[j].status = jobs[j].status
                               /\ jobs'[j].stage = jobs[j].stage
                               /\ jobs'[j].progress_pct = jobs[j].progress_pct

\* C21: a job is created with status pending and progress_pct 0; its stored
\* progress_pct never decreases and stays within [0,100]; once its status is
\* completed or failed, no later operation changes its status, stage or
\* progress_pct.
C21_JobRecordMonotoneTerminal == []C21_State /\ [][C21_Step]_vars

\* A job failed in validation keeps its progress_pct of 60 while the next job
\* of the queue has been built to completion.
C21_Witness ==
    \E j, k \in DOMAIN jobs :
        /\ j < k
        /\ jobs[j].status = "failed"
        /\ jobs[j].progress_pct = 60
        /\ jobs[k].status = "completed"
        /\ jobs[k].progress_pct = 100

\* ---------------------------------------------------- properties of the sessions
C23_Step ==
    validated' # validated =>
        LET session == IF validated'.token \in Tokens THEN active_sessions[validated'.token]
                       ELSE NoSession
        IN /\ session = NoSession =>
                  validated'.result = NoSession /\ active_sessions' = active_sessions
           /\ (session # NoSession /\ now <= session.expires_at.iso) =>
                  validated'.result = session /\ active_sessions' = active_sessions
           /\ (session # NoSession /\ now > session.expires_at.iso) =>
                  /\ validated'.result = NoSession
                  /\ active_sessions' = [active_sessions EXCEPT ![validated'.token] = NoSession]
                  /\ validated'.token \in evicted'
           /\ validated'.token \in evicted => validated'.result = NoSession

C23_State ==
    \A tok \in evicted : active_sessions[tok] = NoSession

\* C23: validate_session returns the session for a token that exists and has
\* not expired and leaves the session map unchanged; for a token whose
\* expires_at has passed it removes the session from the map and returns
\* not-found, and every later validation of that token returns not-found.
C23_ValidateSession == []C23_State /\ [][C23_Step]_vars

\* A token whose session an earlier validation found expired is validated
\* again, at a later time, and is not found.
C23_Witness ==
    /\ validated.token \in evicted
    /\ ~validated.expired
    /\ validated.result = NoSession
    /\ \E tok \in Tokens \ evicted : active_sessions[tok] # NoSession

\* ----------------------------------------------------- properties of publishing
\* The step handles a publish request for (s, rid, channel).
PublishRequest(s, rid, channel) ==
    \/ \E c \in Conns : server = "app" /\ hub_handle_publish(c, s, rid, channel)
    \/ \E tok \in Tokens :
           /\ server = "cp"
           /\ validate_session(active_sessions, tok).result # NoSession
           /\ api_publish_spell(tok, s, rid, channel)

\* The step hands msg to every connected client: as send tasks in the asyncio
\* hub, as an emit in the Socket.IO server.
BroadcastsToAll(msg) ==
    IF server = "app"
    THEN connected_clients # {} =>
             /\ Len(tasks') = Len(tasks) + 1
             /\ Last(tasks').msg = msg
             /\ Last(tasks').to = connected_clients
    ELSE \A c \in connected_clients :
             conn_state[c] = "open" => recv'[c] = Append(recv[c], msg)

\* The step creates no send task and hands a client at most an error reply.
BroadcastsNothing ==
    /\ tasks' = tasks
    /\ \A c \in Conns :
           recv'[c] # recv[c] => recv'[c] = Append(recv[c], [type |-> "error"])

\* C22: a publish of a revision that does not exist changes no channel pointer
\* and broadcasts nothing; a publish of an existing revision sets only the
\* named channel's pointer of that spell to revision_id, leaves the spell's
\* other two pointers and every other spell unchanged, and broadcasts the
\* update to all connected clients.
C22_PublishRepointsAndBroadcasts ==
    [][\A s \in SpellIds, rid \in KnownRevisionIds, ch \in Channels :
           PublishRequest(s, rid, ch) =>
               IF revision_exists(rev_dirs, s, rid)
               THEN /\ spells'[s][ch] = rid
                    /\ \A s2 \in SpellIds, ch2 \in Channels :
                           <<s2, ch2>> # <<s, ch>> => spells'[s2][ch2] = spells[s2][ch2]
                    /\ BroadcastsToAll(SpellMsg("spell.active_update", s, rid, ch,
                                                read_manifest(rev_files, s, rid)))
               ELSE /\ spells' = spells
                    /\ BroadcastsNothing]_vars

\* ------------------------------------------------------ properties of the op log
\* The seq of an op is its op_id, the only number the log gives an op.
Seqs(w) == [i \in DOMAIN get_world_ops(world_ops, w) |-> get_world_ops(world_ops, w)[i].op_id]

\* The log of w, read in seq order, is what was appended to w since its last clear.
InAppendOrder(w) ==
    LET log == get_world_ops(world_ops, w)
    IN /\ Len(log) = Len(appended[w])
       /\ \A i \in DOMAIN log : log[i].op_data.center = appended[w][i].center

StrictlyIncreasing(seqs) == \A i \in 1..(Len(seqs) - 1) : seqs[i] < seqs[i + 1]

GapFree(seqs) == \A i \in 1..(Len(seqs) - 1) : seqs[i + 1] = seqs[i] + 1

\* C24: for each world the seq values of its ops are strictly increasing in
\* append order and gap-free, also when ops are appended to several worlds in
\* an interleaved order and after a world's log was cleared.
C24_SeqGapFreePerWorld ==
    \A w \in Worlds : InAppendOrder(w) /\ StrictlyIncreasing(Seqs(w)) /\ GapFree(Seqs(w))

\* ------------------------------------------------ properties of deleting a world
\* The request thread of a DELETE /world/<world_id> sends its response.
DeleteReturns(t) == sup_threads[t].op = "deleted" /\ sup_threads'[t].op = "idle"

\* C25: deleting a world stops its simulation process and removes its cached
\* handle, deletes every op of that world and removes the world record; when
\* the delete returns, no op and no cached handle exists for that world_id.
C25_DeleteLeavesNothing ==
    [][\A t \in Threads :
           DeleteReturns(t) =>
               LET w == sup_threads[t].world_id
                   taken == sup_threads[t].server_info
               IN /\ taken # NoHandle => procs'[taken.process].state = "exited"
                  /\ running_servers'[w] = NoHandle
                  /\ \A r \in world_ops' : r.world_id # w
                  /\ ~world_exists(world_rows', w)]_vars

\* ------------------------------------------ properties of the content store
\* C26: a read of a key returns the bytes of the last write_revision_file under
\* that key, and their hash is the hash that write returned; a read of a key
\* that was never written returns None (not-found).
C26_WriteReadRoundTrip ==
    store_last.op = "read" =>
        IF store_last.key \in DOMAIN written
        THEN LET w == written[store_last.key]
             IN /\ store_last.outcome = "bytes"
                /\ store_last.content = w.content
                /\ compute_file_hash(store_last.content) = w.hash
        ELSE store_last.outcome = "None"

\* ------------------------------------------- properties of a build without code
\* The script stored as the entrypoint of a job's revision.
EntrypointScript(j) ==
    Utf8Decode(read_revision_file(rev_files, jobs[j].spell_id, jobs[j].result_revision_id,
                                  "code/spell.gd"))

\* C27: a build request whose code field is absent or null builds the stub
\* script: the job does not fail, and when it has ended it is completed with a
\* revision whose entrypoint is the stub, which declares on_cast.
C27_NoCodeBuildsStub ==
    \A j \in DOMAIN jobs :
        requests[j].code = PyNone =>
            /\ jobs[j].status # "failed"
            /\ Finished(j) =>
                   /\ jobs[j].status = "completed"
                   /\ jobs[j].result_revision_id # NoRev
                   /\ file_exists(rev_files, jobs[j].spell_id, jobs[j].result_revision_id,
                                  "code/spell.gd")
                   /\ EntrypointScript(j) = generate_stub_spell
                   /\ HasFunc(EntrypointScript(j), "on_cast")

\* ------------------------------------------ properties of a revision's version
\* C28: the version the finalize stage recomputes is the version the assemble
\* stage of the same job allocated, so every finalized revision carries, in its
\* Revision record and in its manifest, the version embedded in its revision_id.
C28_FinalizeVersionIsAssembleVersion ==
    /\ worker.pc \in {"finalize_95", "complete"} => worker.manifest_version = worker.version
    /\ \A i \in DOMAIN revisions :
           LET r == revisions[i]
           IN Finalized(r.spell_id, r.revision_id) =>
                  /\ r.version = r.revision_id.ver
                  /\ r.manifest.version = r.revision_id.ver
                  /\ read_manifest(rev_files, r.spell_id, r.revision_id).version = r.revision_id.ver

\* A second revision of a spell was finalized: its assemble stage took version 2
\* while the first revision was in the table.
C28_Witness ==
    \E i \in DOMAIN revisions :
        /\ revisions[i].revision_id.ver = 2
        /\ revisions[i].version = 2
        /\ manifest_exists(rev_files, revisions[i].spell_id, revisions[i].revision_id)

\* ------------------------------------------------- properties of the port choice
\* A cached handle whose process has not exited.
LiveHandle(w) ==
    /\ running_servers[w] # NoHandle
    /\ procs[running_servers[w].process].state # "exited"

\* The request thread runs _find_available_port.
FindPortStep(t) == sup_threads[t].pc = "find_port" /\ sup_threads'[t].pc # "find_port"

\* C29: _find_available_port removes every cached handle whose process has
\* exited and returns the smallest port of 7777..7876 that no cached handle with
\* a live process has; when live handles have all 100 ports it returns None, and
\* the join fails without spawning a process.
C29_FindAvailablePort ==
    /\ [](\A t \in Threads :
              (sup_threads[t].failed /\ sup_threads[t].base_port = 0) =>
                  /\ sup_threads[t].pc = "done"
                  /\ sup_threads[t].process = 0
                  /\ sup_threads[t].server_info = NoHandle)
    /\ [][\A t \in Threads :
              FindPortStep(t) =>
                  LET claimed == {running_servers[w].port :
                                      w \in {x \in DOMAIN running_servers : LiveHandle(x)}}
                      free == {p \in 7777..7876 : p \notin claimed}
                  IN /\ \A w \in DOMAIN running_servers :
                            running_servers'[w] =
                                IF LiveHandle(w) THEN running_servers[w] ELSE NoHandle
                     /\ procs' = procs
                     /\ free # {} =>
                            /\ sup_threads'[t].pc = "popen"
                            /\ ~sup_threads'[t].failed
                            /\ sup_threads'[t].base_port \in free
                            /\ \A p \in free : sup_threads'[t].base_port <= p
                     /\ free = {} =>
                            /\ sup_threads'[t].pc = "done"
                            /\ sup_threads'[t].failed
                            /\ sup_threads'[t].base_port = 0]_vars

\* A join found all 100 ports claimed by live handles and failed.
C29_Witness ==
    \E t \in Threads :
        /\ sup_threads[t].pc = "done"
        /\ sup_threads[t].failed
        /\ sup_threads[t].base_port = 0
        /\ \A p \in 7777..7876 : \E w \in DOMAIN running_servers : LiveHandle(w) /\ running_servers[w].port = p

\* --------------------------------------------- properties of the launch waits
\* The launch of thread t builds the handle it returns: a server_info of the
\* process it spawned.
HandleBuilt(t) ==
    /\ sup_threads[t].op = "get"
    /\ sup_threads[t].process # 0
    /\ sup_threads'[t].server_info # sup_threads[t].server_info
    /\ sup_threads'[t].server_info.process = sup_threads[t].process

\* process.poll() is not None after the readiness wait has timed out.
WaitObservesExit(t) ==
    /\ sup_threads[t].pc = "wait_ready" /\ sup_threads'[t].pc # "wait_ready"
    /\ procs[sup_threads[t].process].port = 0
    /\ procs[sup_threads[t].process].state = "exited"

\* process.poll() is not None after a connect of the probe loop has failed.
ProbeObservesExit(t) ==
    /\ sup_threads[t].pc = "probe" /\ sup_threads'[t].pc # "probe"
    /\ ~port_listening(procs, sup_threads[t].actual_port)
    /\ procs[sup_threads[t].process].state = "exited"

LaunchFails(t) ==
    /\ sup_threads'[t].pc = "done"
    /\ sup_threads'[t].failed
    /\ sup_threads'[t].server_info = NoHandle

\* C30: a launch builds its handle only out of the probe loop, after the
\* readiness marker was seen within the wait or, the marker absent, after a
\* connect to the resolved port (the suggested one) succeeded; an exit of the
\* process that the launch observes in either wait makes it fail.
C30_LaunchWaits ==
    [][\A t \in Threads :
           /\ HandleBuilt(t) =>
                  /\ sup_threads[t].pc = "probe"
                  /\ sup_threads'[t].server_info.port = sup_threads[t].actual_port
                  /\ \/ sup_threads[t].ready
                     \/ /\ ~sup_threads[t].ready
                        /\ sup_threads[t].actual_port = sup_threads[t].base_port
                        /\ port_listening(procs, sup_threads[t].actual_port)
           /\ WaitObservesExit(t) => LaunchFails(t)
           /\ ProbeObservesExit(t) => LaunchFails(t)]_vars

\* One launch is about to return a handle though its process never reported
\* ready, and another launch has failed on the exit of its process.
C30_Witness ==
    \E t, u \in Threads :
        /\ sup_threads[t].pc = "register" /\ ~sup_threads[t].ready
        /\ sup_threads[u].op = "get" /\ sup_threads[u].pc = "done" /\ sup_threads[u].failed
        /\ sup_threads[u].process # 0
        /\ procs[sup_threads[u].process].state = "exited"


\* ----------------------------------------------------------------------------
\* C31: when _start_game_server builds server_info after server_ready.wait
\* returned True, for a process that has written a GAMESERVER_PORT=<p> line,
\* the handle carries p, in whichever order the two lines were written
\* and read; for a process that has written no such line it carries the
\* suggested port.
BuildsInfo(t) ==
    /\ sup_threads[t].pc = "build_info"
    /\ sup_threads'[t].pc = "register"

C31_HandleCarriesReportedPort ==
    [][\A t \in Threads :
         BuildsInfo(t) =>
             LET p == procs[sup_threads[t].process]
                 port == sup_threads'[t].server_info.port
             IN /\ (sup_threads[t].in_time /\ p.reported # 0) => port = p.reported
                /\ (p.state # "starting" /\ p.reported = 0) => port = p.suggested]_vars


\* ----------------------------------------------------------------------------
\* Thread t makes the cache lookup of get_or_start_game_server.
LooksUp(t) == sup_threads[t].pc = "check" /\ sup_threads'[t].pc # "check"

\* Thread t is about to return the server_info it found cached.
ReturnsCached(t) ==
    /\ sup_threads[t].op = "get" /\ sup_threads[t].pc = "done"
    /\ sup_threads[t].server_info # NoHandle
    /\ sup_threads[t].process = 0

C32_Step ==
    \A t \in Threads :
        LooksUp(t) =>
            LET th == sup_threads[t]
                cached == running_servers[th.world_id]
            IN /\ (cached # NoHandle /\ is_server_alive(procs, cached)) =>
                      /\ sup_threads'[t].pc = "done"
                      /\ sup_threads'[t].server_info = cached
                      /\ sup_threads'[t].process = 0
                      /\ running_servers' = running_servers
                      /\ procs' = procs
               /\ (cached # NoHandle /\ ~is_server_alive(procs, cached)) =>
                      /\ running_servers'[th.world_id] = NoHandle
                      /\ sup_threads'[t].pc = "find_port"
                      /\ sup_threads'[t].server_info = NoHandle

\* C32: a get_or_start_game_server that finds a cached handle whose process is
\* alive returns that handle and spawns nothing (it has no process of its own
\* up to its return, and the handle it returns is one that a launch built); one
\* that finds a cached handle whose process has exited removes the handle from
\* running_servers and enters _start_game_server.
C32_CachedOrRelaunch ==
    /\ [](\A t \in Threads :
            ReturnsCached(t) =>
                \/ sup_threads[t].server_info \in returned
                \/ \E u \in Threads \ {t} :
                       sup_threads[u].server_info = sup_threads[t].server_info)
    /\ [][C32_Step]_vars

\* A request is about to return the cached handle of a running game server
\* that an earlier request started and was given.
C32_Witness ==
    \E t \in Threads :
        /\ ReturnsCached(t)
        /\ sup_threads[t].server_info \in returned
        /\ running_servers[sup_threads[t].world_id] = sup_threads[t].server_info
        /\ is_server_alive(procs, sup_threads[t].server_info)
        /\ Len(procs) = 1


\* ----------------------------------------------------------------------------
\* The world_id values of a world.join that is refused: none, an unknown one.
BadWorldIds == JoinInputs \ Worlds

\* What a refused join leaves behind: an error for connection c alone, and the
\* memberships, the player counts and the op logs as they were.
ErrorOnlyTo(c, world_id) ==
    /\ recv' = [recv EXCEPT ![c] = IF conn_state[c] = "open"
                                     THEN Append(@, Msg("error", world_id, <<>>)) ELSE @]
    /\ UNCHANGED <<client_worlds, rooms, player_count, connected_clients, world_ops, tasks>>

C33_Step ==
    /\ \A c \in Conns, w \in BadWorldIds :
           (server = "app" /\ handle_join_world(c, w)) => ErrorOnlyTo(c, w)
    /\ \A h \in Handlers :
           (At(h, "world.join", "start") /\ handlers[h].world_id \in BadWorldIds
              /\ handlers'[h] # handlers[h]) =>
               /\ ErrorOnlyTo(handlers[h].conn, handlers[h].world_id)
               /\ handlers'[h] = NoHandler

\* C33: a world.join without world_id or with the id of no world sends an error
\* to the requesting connection and to no other, and leaves client_worlds, the
\* rooms and every player_count as they were; in handle_join_world of
\* ugc_backend/app.py and in _handle_world_join of server_python/app.py.
C33_BadJoinChangesNothing == [][C33_Step]_vars

\* A connection that is in a world of one player has asked to join a world
\* that does not exist and was sent the error; it still is in its world.
C33_Witness ==
    \E c \in Conns, w \in Worlds :
        /\ recv[c] # <<>>
        /\ Last(recv[c]) = Msg("error", "nowhere", <<>>)
        /\ client_worlds[c] = w
        /\ player_count[w] = 1
        /\ server = "cp" => <<c, w>> \in rooms


\* ----------------------------------------------------------------------------
\* What a rejected spell leaves behind: one message of the given type for
\* connection c alone, no send task, and every op log as it was.
RejectionOnlyTo(c, type) ==
    /\ \A k \in Conns \ {c} : recv'[k] = recv[k]
    /\ conn_state[c] = "open" =>
           /\ Len(recv'[c]) = Len(recv[c]) + 1
           /\ SubSeq(recv'[c], 1, Len(recv[c])) = recv[c]
           /\ Last(recv'[c]).type = type
    /\ UNCHANGED <<world_ops, next_op_id, appended, append_order, tasks>>

KnownSpellTypes == {"create_land", "dig"}

C34_Step ==
    /\ \A c \in Conns, ty \in SpellTypes :
           (/\ server = "app"
            /\ client_worlds[c] = NULL \/ ty \notin KnownSpellTypes
            /\ handle_legacy_spell(c, ty)) => RejectionOnlyTo(c, "spell_rejected")
    /\ \A c \in Conns, i \in CastInputs :
           (/\ server = "app"
            /\ client_worlds[c] = NULL
            /\ handle_cast_request(c, i.spell_id, i.revision_id)) =>
               RejectionOnlyTo(c, "spell.cast_rejected")
    /\ \A h \in Handlers :
           (/\ At(h, "request_spell", "start")
            /\ client_worlds[handlers[h].conn] = NULL \/ handlers[h].spell_type \notin KnownSpellTypes
            /\ handlers'[h] # handlers[h]) =>
               /\ RejectionOnlyTo(handlers[h].conn, "spell_rejected")
               /\ handlers'[h] = NoHandler

\* C34: a request_spell or a spell.cast_request of a connection that is in no
\* world, and a request_spell whose type is neither create_land nor dig, is
\* answered with a rejection to the sender alone: no op is appended to the log
\* of any world and no message is broadcast; in the asyncio hub and in
\* handle_legacy_spell of app_socketio.
C34_RejectedSpellChangesNothing == [][C34_Step]_vars

\* A connection in no world was refused a cast, and a connection in a world
\* was refused a spell of an unknown type; no op log has an entry.
C34_Witness ==
    \E c, k \in Conns, w \in Worlds :
        /\ client_worlds[c] = NULL /\ recv[c] # <<>>
        /\ Last(recv[c]).type \in {"spell.cast_rejected", "spell_rejected"}
        /\ client_worlds[k] = w /\ recv[k] # <<>>
        /\ Last(recv[k]).type = "spell_rejected"
        /\ world_ops = {}
        /\ tasks = <<>>


\* ----------------------------------------------------------------------------
\* The connections registered in the room of world w: those client_worlds
\* places in w in the asyncio hub, the members of the Socket.IO room elsewhere.
Registered(w) ==
    IF server = "app" THEN Members(w) ELSE {c \in Conns : <<c, w>> \in rooms}

\* No handler of a message or of a disconnect is running.
NoOperationRuns == Quiet /\ \A c \in Conns : HandlerIdle(c)

\* C35: after any sequence of joins, leaves, disconnects and deletions of
\* worlds, the player_count stored for each world that exists is the number of
\* connections registered in the room of that world.
C35_CountIsMembers ==
    NoOperationRuns =>
        \A w \in world_rows : player_count[w] = Cardinality(Registered(w))


\* ----------------------------------------------------------------------------
\* The place of the last world.joined for world w among the messages of
\* connection c, 0 when there is none.
LastJoined(c, w) ==
    LET ks == {k \in DOMAIN recv[c] : recv[c][k].type = "world.joined" /\ recv[c][k].world_id = w}
    IN IF ks = {} THEN 0 ELSE CHOOSE k \in ks : \A j \in ks : j <= k

\* Since its last join of world w, connection c was sent the op with this
\* center, in the sync_ops replay or in an apply_op.
ReceivedOp(c, w, center) ==
    \E i \in DOMAIN recv[c] :
        /\ i > LastJoined(c, w)
        /\ recv[c][i].type \in {"sync_ops", "apply_op"}
        /\ recv[c][i].world_id = w
        /\ \E k \in DOMAIN recv[c][i].ops : recv[c][i].ops[k].center = center

\* C36: a connection that has joined world w, with ops appended to w beside the
\* join, misses no op: once no handler runs and no send is outstanding, every
\* op in the log of w was sent to it in the sync_ops replay of that join or in
\* an apply_op after it.
C36_JoinerMissesNoOp ==
    (NoOperationRuns /\ tasks = <<>>) =>
        \A c \in Conns, w \in Worlds :
            (conn_state[c] = "open" /\ client_worlds[c] = w /\ LastJoined(c, w) > 0) =>
                \A r \in world_ops : r.world_id = w => ReceivedOp(c, w, r.op_data.center)


\* ----------------------------------------------------------------------------
\* The messages that are broadcast to the room of a world.
RoomMsgTypes == {"apply_op", "world_cleared", "spell.cast_event"}

\* The step starts a broadcast: one entry is added to the send tasks.
StartsBroadcast ==
    /\ Len(tasks') = Len(tasks) + 1
    /\ SubSeq(tasks', 1, Len(tasks)) = tasks

\* The step is the send task of the oldest broadcast for connection c.
SendTaskRan(c) ==
    /\ tasks # <<>>
    /\ c \in Head(tasks).to
    /\ tasks' = IF Head(tasks).to = {c} THEN Tail(tasks) ELSE [tasks EXCEPT ![1].to = @ \ {c}]

\* Connection c is handed one more message in this step, of a broadcast type.
GetsRoomMsg(c) ==
    /\ Len(recv'[c]) = Len(recv[c]) + 1
    /\ Last(recv'[c]).type \in RoomMsgTypes

C37_Step ==
    /\ tasks' # tasks => StartsBroadcast \/ \E c \in Conns : SendTaskRan(c)
    /\ (StartsBroadcast /\ Last(tasks').msg.type \in RoomMsgTypes) =>
           /\ Last(tasks').to = Members(Last(tasks').msg.world_id)
           /\ UNCHANGED <<client_worlds, connected_clients>>
    /\ \A c \in Conns :
           GetsRoomMsg(c) =>
               IF server = "app"
                 THEN SendTaskRan(c) /\ Last(recv'[c]) = Head(tasks).msg
                 ELSE <<c, Last(recv'[c]).world_id>> \in rooms
    /\ \A c \in Conns, i \in CastInputs :
           (server = "app" /\ handle_cast_request(c, i.spell_id, i.revision_id)) =>
               UNCHANGED <<world_ops, next_op_id, appended, append_order>>

\* C37: an apply_op, world_cleared or spell.cast_event message of world w gets
\* a send task for exactly the connections that client_worlds places in w when
\* it is broadcast, and is handed to a connection by such a send task only, so
\* that a connection in another world or in none is never sent it; and a cast
\* leaves every op log as it was.
C37_RoomMessagesStayInRoom == [][C37_Step]_vars

\* A connection in one world was sent the cast event of its own cast, while a
\* connection in another world was sent no room message, and no op is logged.
C37_Witness ==
    \E c, k \in Conns :
        /\ server = "app"
        /\ client_worlds[c] # NULL /\ client_worlds[k] # NULL
        /\ client_worlds[c] # client_worlds[k]
        /\ recv[c] # <<>> /\ Last(recv[c]).type = "spell.cast_event"
        /\ Last(recv[c]).world_id = client_worlds[c]
        /\ \A j \in DOMAIN recv[k] : recv[k][j].type \notin RoomMsgTypes
        /\ world_ops = {}
        /\ tasks = <<>>


\* ----------------------------------------------------------------------------
\* Process i is in the hands of a request thread: a launch that has not ended
\* yet, or a stop_game_server that has taken its handle out of the cache.
InHand(i) ==
    \E t \in Threads :
        /\ sup_threads[t].pc # "done"
        /\ \/ sup_threads[t].op = "get" /\ sup_threads[t].process = i
           \/ sup_threads[t].op = "stop" /\ sup_threads[t].server_info.process = i

\* The cached handle of the world of process i is the handle of process i.
Cached(i) == running_servers[procs[i].world_id].process = i

\* C38: every process the supervisor has spawned and that still runs is the
\* process of the cached handle of its world, once the launch that spawned it
\* has ended; at the end of a launch that failed its process does not run.
C38_RunningProcessIsCached ==
    /\ \A i \in DOMAIN procs : (procs[i].state # "exited" /\ ~InHand(i)) => Cached(i)
    /\ \A t \in Threads :
           (LaunchFailed(t) /\ sup_threads[t].process # 0) =>
               procs[sup_threads[t].process].state = "exited"


\* ----------------------------------------------------------------------------
\* The revisions table has a record of revision rid for spell s.
RevisionOf(s, rid) ==
    \E i \in DOMAIN revisions : revisions[i].revision_id = rid /\ revisions[i].spell_id = s

\* The step writes status = 'completed' to job j.
Completes(j) == jobs[j].status # "completed" /\ jobs'[j].status = "completed"

C39_State ==
    \A j \in DOMAIN jobs :
        jobs[j].status = "completed" => RevisionOf(jobs[j].spell_id, jobs[j].result_revision_id)

C39_Step ==
    \A j \in DOMAIN jobs :
        Completes(j) => spells[jobs[j].spell_id].draft = jobs'[j].result_revision_id

\* C39: the result_revision_id of a completed job names a record of the
\* revisions table that belongs to the spell of the job, and in the step that
\* completed the job the draft pointer of that spell was that revision.
C39_CompletedJobNamesDraft == []C39_State /\ [][C39_Step]_vars

====
